---- MODULE Spec2Model ----
(***************************************************************************)
(* Model of the kalshibook ingestion collector (src/src/collector).        *)
(*                                                                         *)
(*   - the frame dispatcher  CollectorService._handle_message  (main.py)   *)
(*   - OrderbookProcessor    (processor.py): sequence validation, gaps     *)
(*   - MarketDiscovery       (discovery.py): active/pending/overflow       *)
(*   - DatabaseWriter        (writer.py): buffers, lock, flushes           *)
(*                                                                         *)
(* The Processor and Discovery hand records to the Writer and commands to  *)
(* the connection through injected callbacks (main.py 72-88).  A handler's *)
(* callback invocations are recorded, in call order, in the variable `out` *)
(* (what the last dispatched frame made the handler emit); the Writer's    *)
(* own handling of add_* calls is modelled by the Writer actions below.    *)
(***************************************************************************)
EXTENDS Integers, Sequences, FiniteSets, TLC

VARIABLES
    conn,                   \* KalshiWSConnection task: "starting" | "connected" |
                            \* "reconnecting" | "crashed" | "stopped"
    subscriptions,          \* OrderbookProcessor._subscriptions: ticker -> MarketSubscription
    active_subscriptions,   \* MarketDiscovery._active_subscriptions
    pending_subscriptions,  \* MarketDiscovery._pending_subscriptions
    overflow_tickers,       \* MarketDiscovery._overflow_tickers (FIFO list)
    out,                    \* callbacks invoked by the last dispatched frame
    last,                   \* the last dispatched frame, handshake or disconnect (history)
    prev,                   \* Processor/Discovery state just before the last frame (history)
    chain,                  \* per ticker: last reset/emission of the delta stream (history)
    stale_markets,          \* CollectorMetrics.stale_markets
    frames,                 \* number of frames dispatched so far
    requested,              \* tickers named by the orderbook subscribe commands sent (history)
    buffers,                \* DatabaseWriter's buffers: buffer name -> list of items
    lock,                   \* DatabaseWriter._lock: "free" or the task holding it
    inflight,               \* the local `batch` of each _flush_* whose DB I/O is running
    io,                     \* the buffers whose _flush_* is awaiting the DB
    tables,                 \* the store: rows written, per destination table
    failed,                 \* per buffer: the last failed batch, until it is written (history)
    wlast,                  \* the last Writer step (history)
    adds,                   \* number of add_* calls so far
    run,                    \* the flush under way or last finished: who started it, the
                            \* batches it swapped out, the rows it wrote (history)
    task,                   \* an enrichment task (CollectorService._enrich_market): its
                            \* position, its arguments and what it has done so far
    phase,                  \* CollectorService: "running" | "stopped" (stop() returned,
                            \* the tasks are cancelled) | "client_closed"
                            \* (enrichment.close() returned) | "flushing" (writer.stop()
                            \* runs its flush_all) | "closed" (close_pool() returned)
    backoff,                \* KalshiWSConnection.start's local backoff, in seconds
    commands,               \* KalshiWSConnection as _send_command sees it: _cmd_id, _ws
                            \* (0: None, else the number of the open connection), and
                            \* the ids assigned, frames sent and ids returned (history)
    api                     \* the read side: the rows reconstruct_orderbook reads from the
                            \* store (snapshot, deltas) and the book it returned

dispVars == <<conn, subscriptions, active_subscriptions, pending_subscriptions,
              overflow_tickers, out, last, prev, chain, stale_markets, frames, requested, phase, task,
              backoff, api, commands>>

writerVars == <<buffers, lock, inflight, io, tables, failed, wlast, adds, run>>

vars == <<dispVars, writerVars>>

-----------------------------------------------------------------------------
(* Bounds of the model.                                                    *)

MaxSeq == 2             \* sequence numbers on frames range over 0..MaxSeq
MaxFrames == 3          \* frames dispatched in a run of orderbook frames
MaxEvents == 4          \* frames dispatched in a run of lifecycle frames
MaxSubscriptions == 1   \* Settings.max_subscriptions, scaled down
MaxBatchSize == 2       \* Settings.batch_size (DatabaseWriter._max_batch_size), scaled down
MaxAdds == 2            \* add_* calls in one run
max_backoff == 2        \* connection.py 85 (60.0), scaled down
RESUBSCRIBE_BATCH_SIZE == 2     \* main.py 26 (100), scaled down

Tickers == {"M1", "M2", "M3"}
ProcTickers == {"M1", "M2"}     \* tickers of orderbook frames
NoTicker == ""                  \* data.get("market_ticker", "") when the key is missing
Sids == {10, 20}
Seqs == 0..MaxSeq
Levels == {"empty", "levels"}   \* the yes/no arrays of a snapshot: [] or not

ACTIVE_EVENT_TYPES == {"created", "activated", "close_date_updated"}
TERMINAL_EVENT_TYPES == {"determined", "settled", "deactivated", "closed"}
EventTypes == ACTIVE_EVENT_TYPES \cup TERMINAL_EVENT_TYPES \cup {"other"}

-----------------------------------------------------------------------------
(* Callback records.                                                       *)

NoOut == [writer |-> <<>>, cmds |-> <<>>, resubscribe |-> <<>>, enrich |-> <<>>,
          pings |-> 0]

\* models.MarketSubscription defaults: sid = 0, last_seq = -1, is_stale = False
MarketSubscription(sid, last_seq) ==
    [sid |-> sid, last_seq |-> last_seq, is_stale |-> FALSE]

Put(dict, key, value) ==
    [k \in DOMAIN dict \cup {key} |-> IF k = key THEN value ELSE dict[k]]

Pop(dict, key) == [k \in DOMAIN dict \ {key} |-> dict[k]]

\* connection.send_subscribe([channel], tickers)
Subscribe(channel, tickers) == [cmd |-> "subscribe", channel |-> channel, tickers |-> tickers]

SendSubscribe(tickers) == Subscribe("orderbook_delta", tickers)
SendUnsubscribe(tickers) == [cmd |-> "unsubscribe", channel |-> "orderbook_delta", tickers |-> tickers]

-----------------------------------------------------------------------------
(* OrderbookProcessor (processor.py).  A handler is an operator from the   *)
(* component state s = [subs, active, pending, overflow, out] to the state *)
(* after the handler has run to completion.                                *)

Emit(s, call) == [s EXCEPT !.out.writer = Append(@, call)]

Send(s, command) == [s EXCEPT !.out.cmds = Append(@, command)]

\* CollectorService._handle_resubscribe: unsubscribe, sleep(0.1), subscribe
handle_resubscribe(s, ticker) ==
    Send(Send([s EXCEPT !.out.resubscribe = Append(@, ticker)],
              SendUnsubscribe(<<ticker>>)),
         SendSubscribe(<<ticker>>))

track_market(s, ticker, sid) ==
    [s EXCEPT !.subs = Put(@, ticker, MarketSubscription(sid, -1))]

untrack_market(s, ticker) ==
    [s EXCEPT !.subs = Pop(@, ticker)]

\* Mutant: the snapshot does not reset the sequence number
SnapshotStateNoSeq(sid, seq) == [sid |-> sid, last_seq |-> -1, is_stale |-> FALSE]

\* processor.py 83-92: the state a snapshot leaves for its ticker
SnapshotState(sid, seq) == [sid |-> sid, last_seq |-> seq, is_stale |-> FALSE]

handle_snapshot(s, msg) ==
    IF msg.ticker = NoTicker
    THEN s
    ELSE Emit([s EXCEPT !.subs = Put(@, msg.ticker, SnapshotState(msg.sid, msg.seq))],
              [call |-> "add_snapshot", ticker |-> msg.ticker, seq |-> msg.seq,
               sid |-> msg.sid, yes |-> msg.yes, no |-> msg.no])

\* Mutant: the immediately preceding seq is not taken for a duplicate
IsDuplicateOffByOne(seq, expected_seq) == seq < expected_seq - 1

\* processor.py 145: seq < expected_seq
IsDuplicate(seq, expected_seq) == seq < expected_seq

\* processor.py 155: seq > expected_seq
IsGap(seq, expected_seq) == seq > expected_seq

GapRecord(ticker, expected_seq, received_seq, sid) ==
    [call |-> "add_gap", ticker |-> ticker, expected_seq |-> expected_seq,
     received_seq |-> received_seq, sid |-> sid]

\* Mutant: the gap is recorded and recovered but the market is not marked stale
handle_gap_unmarked(s, ticker, expected_seq, received_seq, sid) ==
    handle_resubscribe(
        Emit(s, GapRecord(ticker, expected_seq, received_seq, sid)), ticker)

\* Mutant: a gap marks every tracked market stale
handle_gap_all(s, ticker, expected_seq, received_seq, sid) ==
    handle_resubscribe(
        Emit([s EXCEPT !.subs = [t \in DOMAIN s.subs |-> [s.subs[t] EXCEPT !.is_stale = TRUE]]],
             GapRecord(ticker, expected_seq, received_seq, sid)),
        ticker)

\* processor.py 187-189: sum(1 for s in self._subscriptions.values() if s.is_stale)
stale_count(subs) == Cardinality({t \in DOMAIN subs : subs[t].is_stale})

handle_gap(s, ticker, expected_seq, received_seq, sid) ==
    LET stale == [s EXCEPT !.subs[ticker].is_stale = TRUE]
        marked == IF ticker \in DOMAIN s.subs
                  THEN [stale EXCEPT !.stale_markets = stale_count(stale.subs)]
                  ELSE s
    IN  handle_resubscribe(
            Emit(marked, GapRecord(ticker, expected_seq, received_seq, sid)),
            ticker)

\* processor.py 160-176: the delta is valid (or its market was untracked)
AcceptDelta(s, sub, msg) ==
    Emit([s EXCEPT !.subs = Put(@, msg.ticker,
                                [sub EXCEPT !.last_seq = msg.seq, !.sid = msg.sid])],
         [call |-> "add_delta", ticker |-> msg.ticker, seq |-> msg.seq, sid |-> msg.sid,
          day |-> msg.day])

\* Mutant: an untracked market is validated as if it had just been tracked
handle_delta_strict(s, msg) ==
    IF msg.ticker = NoTicker
    THEN s
    ELSE LET sub == IF msg.ticker \in DOMAIN s.subs THEN s.subs[msg.ticker]
                    ELSE MarketSubscription(msg.sid, -1)
             expected_seq == sub.last_seq + 1
         IN  IF IsDuplicate(msg.seq, expected_seq)
             THEN s
             ELSE IF IsGap(msg.seq, expected_seq)
             THEN handle_gap(s, msg.ticker, expected_seq, msg.seq, msg.sid)
             ELSE AcceptDelta(s, sub, msg)

handle_delta(s, msg) ==
    IF msg.ticker = NoTicker
    THEN s
    ELSE IF msg.ticker \notin DOMAIN s.subs
    THEN AcceptDelta(s, MarketSubscription(msg.sid, msg.seq), msg)
    ELSE LET sub == s.subs[msg.ticker]
             expected_seq == sub.last_seq + 1
         IN  IF IsDuplicate(msg.seq, expected_seq)
             THEN s
             ELSE IF IsGap(msg.seq, expected_seq)
             THEN handle_gap(s, msg.ticker, expected_seq, msg.seq, msg.sid)
             ELSE AcceptDelta(s, sub, msg)

-----------------------------------------------------------------------------
(* MarketDiscovery (discovery.py) and its wiring in main.py.               *)

\* discovery.py 46-48
at_capacity(s) == Cardinality(s.active) >= MaxSubscriptions

\* main.py 224-227: CollectorService._subscribe_orderbook
subscribe_orderbook(s, tickers) ==
    IF s.is_connected THEN Send(s, SendSubscribe(tickers)) ELSE s

\* main.py 229-232: CollectorService._unsubscribe_orderbook
unsubscribe_orderbook(s, tickers) ==
    IF s.is_connected THEN Send(s, SendUnsubscribe(tickers)) ELSE s

OverflowRecord(ticker) ==
    [call |-> "add_overflow", ticker |-> ticker, event_ticker |-> "", reason |-> "cap_reached"]

\* Mutant: only the active set is consulted
try_subscribe_active_only(s, ticker) ==
    IF ticker \in s.active
    THEN s
    ELSE IF at_capacity(s)
    THEN Emit([s EXCEPT !.overflow = Append(@, ticker)], OverflowRecord(ticker))
    ELSE subscribe_orderbook([s EXCEPT !.pending = @ \cup {ticker}], <<ticker>>)

try_subscribe(s, ticker) ==
    IF ticker \in s.active \/ ticker \in s.pending
    THEN s
    ELSE IF at_capacity(s)
    THEN Emit([s EXCEPT !.overflow = Append(@, ticker)], OverflowRecord(ticker))
    ELSE subscribe_orderbook([s EXCEPT !.pending = @ \cup {ticker}], <<ticker>>)

RECURSIVE backfill_from_overflow(_)
backfill_from_overflow(s) ==
    IF s.overflow # <<>> /\ ~at_capacity(s)
    THEN backfill_from_overflow(
             try_subscribe([s EXCEPT !.overflow = Tail(@)], Head(s.overflow)))
    ELSE s

\* Mutant: the unsubscribe is sent whether or not the ticker was active
handle_terminal_always(s, ticker) ==
    [backfill_from_overflow([unsubscribe_orderbook(s, <<ticker>>)
                                EXCEPT !.active = @ \ {ticker}])
        EXCEPT !.pending = @ \ {ticker}]

handle_terminal(s, ticker) ==
    LET was_active == ticker \in s.active
        after == IF was_active
                 THEN backfill_from_overflow(
                          [unsubscribe_orderbook(s, <<ticker>>)
                              EXCEPT !.active = @ \ {ticker}])
                 ELSE s
    IN  [after EXCEPT !.pending = @ \ {ticker}]

MarketUpdate(ticker, event_type) ==
    [call |-> "add_market_update", ticker |-> ticker, event_type |-> event_type]

handle_lifecycle_event(s, msg) ==
    IF msg.ticker = NoTicker
    THEN s
    ELSE LET updated == Emit(s, MarketUpdate(msg.ticker, msg.event_type))
         IN  IF msg.event_type \in ACTIVE_EVENT_TYPES
             THEN try_subscribe(updated, msg.ticker)
             ELSE IF msg.event_type \in TERMINAL_EVENT_TYPES
             THEN handle_terminal(updated, msg.ticker)
             ELSE updated

\* Mutant: the confirmed ticker is not taken out of pending
confirm_subscription_kept(s, ticker) ==
    [s EXCEPT !.active = @ \cup {ticker}]

confirm_subscription(s, ticker) ==
    [s EXCEPT !.pending = @ \ {ticker}, !.active = @ \cup {ticker}]

confirm_unsubscription(s, ticker) ==
    [s EXCEPT !.active = @ \ {ticker}, !.pending = @ \ {ticker}]

\* discovery.py 183-187
load_existing_subscriptions(s, tickers) == [s EXCEPT !.active = tickers]

\* Mutant: the pending tickers are not resubscribed
get_resubscribe_list_active(s) ==
    {q \in [1..Cardinality(s.active) -> s.active] :
        \A i, j \in 1..Cardinality(s.active) : i # j => q[i] # q[j]}

\* discovery.py 176-181: list(active | pending), in any of the orders a set
\* can be listed in
get_resubscribe_list(s) ==
    LET both == s.active \cup s.pending
    IN  {q \in [1..Cardinality(both) -> both] :
            \A i, j \in 1..Cardinality(both) : i # j => q[i] # q[j]}

\* main.py 207-212: the slices tickers[i : i + RESUBSCRIBE_BATCH_SIZE]
RECURSIVE Batches(_)
Batches(tickers) ==
    IF tickers = <<>>
    THEN <<>>
    ELSE IF Len(tickers) <= RESUBSCRIBE_BATCH_SIZE
    THEN <<SendSubscribe(tickers)>>
    ELSE <<SendSubscribe(SubSeq(tickers, 1, RESUBSCRIBE_BATCH_SIZE))>>
             \o Batches(SubSeq(tickers, RESUBSCRIBE_BATCH_SIZE + 1, Len(tickers)))

\* main.py 194-214: CollectorService._handle_reconnect, with the list
\* get_resubscribe_list returned
handle_reconnect(s, tickers) ==
    [Send(Send(s, Subscribe("market_lifecycle_v2", <<>>)), Subscribe("trade", <<>>))
        EXCEPT !.out.cmds = @ \o Batches(tickers)]

-----------------------------------------------------------------------------
(* The frame dispatcher, CollectorService._handle_message (main.py).       *)

\* main.py 175-177: for ticker in tickers: confirm_subscription; track_market
RECURSIVE handle_subscribed(_, _, _)
handle_subscribed(s, tickers, sid) ==
    IF tickers = <<>>
    THEN s
    ELSE handle_subscribed(
             track_market(confirm_subscription(s, Head(tickers)), Head(tickers), sid),
             Tail(tickers), sid)

\* main.py 182-184: for ticker in tickers: confirm_unsubscription; untrack_market
RECURSIVE handle_unsubscribed(_, _)
handle_unsubscribed(s, tickers) ==
    IF tickers = <<>>
    THEN s
    ELSE handle_unsubscribed(
             untrack_market(confirm_unsubscription(s, Head(tickers)), Head(tickers)),
             Tail(tickers))

TradeExecution(trade_id, day) == [call |-> "add_trade", trade_id |-> trade_id, day |-> day]

\* main.py 234-249: a payload that cannot be read is logged and swallowed
handle_trade(s, msg) ==
    IF msg.form = "ok" THEN Emit(s, TradeExecution(msg.trade_id, msg.day)) ELSE s

handle_message(s, msg) ==
    CASE msg.type = "orderbook_snapshot" -> handle_snapshot(s, msg)
      [] msg.type = "orderbook_delta" -> handle_delta(s, msg)
      [] msg.type = "trade" -> handle_trade(s, msg)
      [] msg.type \in {"market_lifecycle_v2", "market_lifecycle"} ->
             handle_lifecycle_event(s, msg)
      [] msg.type = "subscribed" -> handle_subscribed(s, msg.tickers, msg.sid)
      [] msg.type = "unsubscribed" -> handle_unsubscribed(s, msg.tickers)
      [] OTHER -> s      \* "error" and unknown types are logged

\* The handlers read the payload with data = msg.get("msg", {}); data.get(...):
\* a payload that is not a JSON object raises AttributeError in every handler
\* but _handle_trade, which wraps the reads in try/except (main.py 237-249);
\* text that is not JSON raises in orjson.loads (connection.py 141).
RaisesInHandler(msg) ==
    \/ msg.form = "not_json"
    \/ /\ msg.form = "bad_payload"
       /\ msg.type \in {"orderbook_snapshot", "orderbook_delta", "market_lifecycle_v2",
                        "market_lifecycle", "subscribed", "unsubscribed"}

\* connection.py 137-147 catches asyncio.TimeoutError only and start()
\* (connection.py 88-110) catches connection errors only: any other exception
\* raised under on_message ends the connection task.
ConnAfterException == "crashed"

-----------------------------------------------------------------------------
(* DatabaseWriter (writer.py).                                             *)

BufferNames == {"snapshot_buffer", "delta_buffer", "trade_buffer", "settlement_buffer",
                "gap_buffer", "overflow_buffer", "market_updates"}

\* the buffer each add_* appends to (writer.py 50-90)
BufferOf(call) ==
    CASE call = "add_snapshot" -> "snapshot_buffer"
      [] call = "add_delta" -> "delta_buffer"
      [] call = "add_trade" -> "trade_buffer"
      [] call = "add_settlement" -> "settlement_buffer"
      [] call = "add_gap" -> "gap_buffer"
      [] call = "add_overflow" -> "overflow_buffer"
      [] call = "add_market_update" -> "market_updates"

\* writer.py 54, 61, 68: the add itself flushes when the buffer reaches
\* max_batch_size; writer.py 75: add_settlement always flushes
FlushesOnAdd(b, buffer) ==
    \/ b \in {"snapshot_buffer", "delta_buffer", "trade_buffer"} /\ Len(buffer) >= MaxBatchSize
    \/ b = "settlement_buffer"

\* the task that calls each add_*: the connection task, through the
\* Processor's and Discovery's callbacks, or an enrichment task
CallerOf(b) == IF b = "settlement_buffer" THEN "enrichment" ELSE "ws_connection"

\* settlements and market updates are upserted row by row (writer.py 309,
\* 412); the other tables take the batch in one executemany
RowByRow == {"settlement_buffer", "market_updates"}

\* Mutant: a failed batch is dropped instead of being put back
PutBackDropped(batch, buffer) == buffer

\* writer.py 220, 259, 297, 336, 379, 400, 432: buffer = batch + buffer
PutBack(batch, buffer) == batch \o buffer

\* SQL NULL / Python None in a column or a payload field
Null == "null"

\* COALESCE(EXCLUDED.c, t.c)
COALESCE(new, old) == IF new # Null THEN new ELSE old

\* writer.py 316-323, 419-423: the DO UPDATE SET list.  A settlement keeps
\* its result when the new one is NULL; a market takes the new status.
Merged(row, item) ==
    IF item.rec.call = "add_settlement"
    THEN [item EXCEPT !.rec.result = COALESCE(@, row.rec.result)]
    ELSE item

\* writer.py 316, 419: INSERT ... ON CONFLICT (key) DO UPDATE: the row of
\* the item's ticker is updated, or the item appended when the table has none
Upsert(table, item) ==
    IF \E i \in 1..Len(table) : table[i].rec.ticker = item.rec.ticker
    THEN [i \in 1..Len(table) |->
             IF table[i].rec.ticker = item.rec.ticker THEN Merged(table[i], item)
             ELSE table[i]]
    ELSE Append(table, item)

\* deltas and trades are partitioned by the day of ts (writer.py 232-235,
\* 271-274); PartitionsOf names the set of days that have a partition
Partitioned == {"delta_buffer", "trade_buffer"}
PartitionsOf(b) == IF b = "delta_buffer" THEN "deltas_partitions" ELSE "trades_partitions"

\* the buffers' tables, the tables that add_event_update and
\* add_series_update upsert directly, and the partitions
TableNames == BufferNames \cup {"events", "series"} \cup {PartitionsOf(b) : b \in Partitioned}

\* ts.date() of the rows: day 1 has its partitions when the collector starts
\* (main.py 59-61), day 2 has none yet
Days == {1, 2}

\* Mutant: only the first row's date is ensured
dates_seen_first(batch) == IF batch = <<>> THEN {} ELSE {batch[1].rec.day}

\* writer.py 233, 272: dates_seen = {d.ts.date() for d in batch}
dates_seen(batch) == {batch[i].rec.day : i \in 1..Len(batch)}

\* writer.py 339-356, 435-451: CREATE TABLE IF NOT EXISTS ... PARTITION OF,
\* with duplicate_table swallowed
ensure_partition(parts, dt) == IF dt \in parts THEN parts ELSE parts \cup {dt}

RECURSIVE ensure_all(_, _)
ensure_all(parts, dts) ==
    IF dts = {} THEN parts
    ELSE LET dt == CHOOSE x \in dts : TRUE
         IN  ensure_all(ensure_partition(parts, dt), dts \ {dt})

\* orjson.dumps(data).decode(): the payload as JSON text, NULL for no payload
dumps(fields) ==
    IF fields = <<>> THEN Null
    ELSE "{" \o fields[1] \o (IF Len(fields) > 1 THEN "," \o fields[2] ELSE "") \o "}"

\* INSERT ... ON CONFLICT (key) DO UPDATE with the merged row
PutRow(table, row) ==
    IF \E i \in 1..Len(table) : table[i].key = row.key
    THEN [i \in 1..Len(table) |-> IF table[i].key = row.key THEN row ELSE table[i]]
    ELSE Append(table, row)

\* writer.py 96-124: the events table after the statement.  title stands
\* for every column merged with COALESCE; the metadata column is the whole
\* payload.
upsert_event(table, data) ==
    LET old == IF \E i \in 1..Len(table) : table[i].key = data.event_ticker
               THEN table[CHOOSE i \in 1..Len(table) : table[i].key = data.event_ticker]
               ELSE [series_ticker |-> Null, title |-> Null, metadata |-> Null]
    IN  PutRow(table,
               [key |-> data.event_ticker,
                series_ticker |-> COALESCE(data.series_ticker, old.series_ticker),
                title |-> COALESCE(data.title, old.title),
                metadata |-> COALESCE(dumps(<<data.series_ticker, data.title>>),
                                      old.metadata)])

\* writer.py 131-157: the series table after the statement
upsert_series(table, data) ==
    LET old == IF \E i \in 1..Len(table) : table[i].key = data.ticker
               THEN table[CHOOSE i \in 1..Len(table) : table[i].key = data.ticker]
               ELSE [title |-> Null, metadata |-> Null]
    IN  PutRow(table,
               [key |-> data.ticker,
                title |-> COALESCE(data.title, old.title),
                metadata |-> COALESCE(dumps(<<data.title>>), old.metadata)])

RECURSIVE UpsertAll(_, _)
UpsertAll(table, rows) ==
    IF rows = <<>> THEN table ELSE UpsertAll(Upsert(table, Head(rows)), Tail(rows))

\* the rows of a batch reach their table: upserted, or bulk-inserted
Write(b, table, rows) ==
    IF b \in RowByRow THEN UpsertAll(table, rows) ELSE table \o rows

\* Mutant: flush_all has no task for the gap buffer
flush_tasks_no_gaps(bufs) == {b \in BufferNames \ {"gap_buffer"} : bufs[b] # <<>>}

\* writer.py 171-185: flush_all makes a task for every non-empty buffer
flush_tasks(bufs) == {b \in BufferNames : bufs[b] # <<>>}

NoRun == [caller |-> "none", taken |-> [b \in BufferNames |-> <<>>],
          written |-> [b \in BufferNames |-> <<>>], ok |-> TRUE]

NoStep == [op |-> "none", buffer |-> "", batch |-> <<>>, added |-> <<>>, retry |-> FALSE,
           before |-> <<>>, ensured |-> {}, inserting |-> FALSE]

IsPrefix(p, sq) == Len(p) <= Len(sq) /\ \A i \in 1..Len(p) : sq[i] = p[i]

-----------------------------------------------------------------------------
(* Orderbook reconstruction (api/services/reconstruction.py): the read     *)
(* side of the rows the Writer stores.                                     *)

MaxDeltas == 2          \* deltas stored after the latest snapshot

BookPrices == {45, 50}
DeltaAmounts == {-10, -5, 5}

\* the yes_levels / no_levels of a snapshot row: JSONB arrays of
\* [price_cents, quantity] pairs, quantities positive
LevelLists ==
    {<<>>, <<<<50, 10>>>>, <<<<45, 5>>>>, <<<<50, 5>>, <<45, 5>>>>}

NoDepth == <<>>         \* depth: int | None = None

\* nothing stored for the ticker, reconstruct_orderbook not called
NoApi == [snapshot |-> <<>>, deltas |-> <<>>, depth |-> NoDepth, result |-> <<>>]

\* KalshiWSConnection.__init__: no websocket, _cmd_id = 0, nothing sent
NoCommands == [cmd_id |-> 0, ws |-> 0, open |-> FALSE,
               assigned |-> <<>>, sent |-> <<>>, returned |-> <<>>]

\* {int(level[0]): int(level[1]) for level in (levels or [])}
levels_book(levels) ==
    [p \in {levels[i][1] : i \in DOMAIN levels} |->
        levels[CHOOSE i \in DOMAIN levels :
                   /\ levels[i][1] = p
                   /\ \A j \in DOMAIN levels : levels[j][1] = p => j <= i][2]]

\* Mutant: a level whose quantity falls to 0 or below stays in the book
apply_delta_keep(books, delta) ==
    LET side == IF delta.side = "yes" THEN "yes" ELSE "no"
        book == books[side]
        price == delta.price_cents
        quantity == (IF price \in DOMAIN book THEN book[price] ELSE 0)
                        + delta.delta_amount
    IN  [books EXCEPT ![side] = Put(book, price, quantity)]

\* the body of `for delta in deltas`
apply_delta(books, delta) ==
    LET side == IF delta.side = "yes" THEN "yes" ELSE "no"
        book == books[side]
        price == delta.price_cents
        quantity == (IF price \in DOMAIN book THEN book[price] ELSE 0)
                        + delta.delta_amount
    IN  [books EXCEPT ![side] = IF quantity <= 0 THEN Pop(book, price)
                                ELSE Put(book, price, quantity)]

RECURSIVE apply_deltas(_, _)
apply_deltas(books, deltas) ==
    IF deltas = <<>> THEN books
    ELSE apply_deltas(apply_delta(books, Head(deltas)), Tail(deltas))

\* sorted([{"price": p, "quantity": q} ...], key=price, reverse=True)[:depth]
RECURSIVE sorted_levels(_, _)
sorted_levels(book, depth) ==
    IF DOMAIN book = {} \/ depth = <<0>> THEN <<>>
    ELSE LET p == CHOOSE x \in DOMAIN book : \A y \in DOMAIN book : y <= x
         IN  <<[price |-> p, quantity |-> book[p]]>>
                 \o sorted_levels(Pop(book, p),
                                  IF depth = NoDepth THEN NoDepth ELSE <<depth[1] - 1>>)

\* reconstruct_orderbook, given what its two queries return: the latest
\* snapshot row of the ticker (none: <<>>) and the deltas after it by seq
reconstruct_orderbook(snapshot, deltas, depth) ==
    IF snapshot = <<>> THEN [found |-> FALSE, yes |-> <<>>, no |-> <<>>]
    ELSE LET books == apply_deltas([yes |-> levels_book(snapshot[1].yes_levels),
                                    no |-> levels_book(snapshot[1].no_levels)],
                                   deltas)
         IN  [found |-> TRUE,
              yes |-> sorted_levels(books.yes, depth),
              no |-> sorted_levels(books.no, depth)]

-----------------------------------------------------------------------------
(* Inbound frames.                                                        *)

NoFrame == [type |-> "none", sid |-> 0, seq |-> 0, ticker |-> NoTicker, tickers |-> <<>>,
            event_type |-> "", yes |-> "empty", no |-> "empty", trade_id |-> 0,
            form |-> "ok", backoff_seconds |-> 0, day |-> 1]

\* the market_tickers list of an acknowledgement frame
AckLists(T) == {<<>>} \cup {<<t>> : t \in T}
                      \cup {<<p[1], p[2]>> : p \in {q \in T \X T : q[1] # q[2]}}

\* a snapshot's yes and no arrays are both empty or both filled
SnapshotFrames(T) ==
    {[NoFrame EXCEPT !.type = "orderbook_snapshot", !.ticker = t, !.sid = sid,
                     !.seq = seq, !.yes = y, !.no = y] :
        t \in T, sid \in Sids, seq \in Seqs, y \in Levels}

DeltaFrames(T) ==
    {[NoFrame EXCEPT !.type = "orderbook_delta", !.ticker = t, !.sid = sid, !.seq = seq] :
        t \in T, sid \in Sids, seq \in Seqs}

LifecycleFrames(T) ==
    {[NoFrame EXCEPT !.type = "market_lifecycle_v2", !.ticker = t, !.event_type = e] :
        t \in T, e \in EventTypes}

SubscribedFrames(T) ==
    {[NoFrame EXCEPT !.type = "subscribed", !.tickers = l, !.sid = sid] :
        l \in AckLists(T), sid \in Sids}

UnsubscribedFrames(T) ==
    {[NoFrame EXCEPT !.type = "unsubscribed", !.tickers = l] : l \in AckLists(T)}

\* well-formed frames without a market_ticker, "error" and unknown frames
OtherFrames ==
    {[NoFrame EXCEPT !.type = ty] :
        ty \in {"orderbook_snapshot", "orderbook_delta", "market_lifecycle_v2",
                "error", "unknown"}}

MalformedFrames ==
    {[NoFrame EXCEPT !.type = ty, !.form = "bad_payload"] :
        ty \in {"orderbook_snapshot", "orderbook_delta", "market_lifecycle", "subscribed",
                "unsubscribed", "error", "trade"}}
    \cup {[NoFrame EXCEPT !.type = "", !.form = "not_json"]}

-----------------------------------------------------------------------------
(* History of each ticker's delta stream.                                  *)
(*   snapped   a snapshot of the ticker was handled                        *)
(*   snap_seq  seq of the last snapshot, or of the last delta emitted      *)
(*             since that snapshot                                         *)

NoChain == [snapped |-> FALSE, snap_seq |-> -1]

EmittedDelta(o, t) ==
    \E i \in 1..Len(o.writer) : o.writer[i].call = "add_delta" /\ o.writer[i].ticker = t

NextChain(c, msg, o) ==
    [t \in Tickers |->
        IF msg.type = "orderbook_snapshot" /\ msg.ticker = t
        THEN [snapped |-> TRUE, snap_seq |-> msg.seq]
        ELSE IF EmittedDelta(o, t)
        THEN [c[t] EXCEPT !.snap_seq = msg.seq]
        ELSE c[t]]

-----------------------------------------------------------------------------
(* Actions.                                                                *)

Snapshot(c) ==
    [subs |-> subscriptions, active |-> active_subscriptions,
     pending |-> pending_subscriptions, overflow |-> overflow_tickers, chain |-> c]

-----------------------------------------------------------------------------
(* Enrichment (main.py 251-321).                                           *)

\* a task that was not created
NoTask == [pc |-> "none", awaited |-> FALSE, at |-> 0, market_ticker |-> NoTicker,
           event_ticker |-> "", event_type |-> "", requests |-> 0, responses |-> <<>>,
           upserts |-> <<>>, events |-> 0, series |-> 0]

\* KalshiRestClient.get_market: None on any failure, or the market, whose
\* result is null until the exchange has propagated it
NoMarket == [found |-> FALSE, result |-> "null", event_ticker |-> ""]
MarketResponses ==
    {NoMarket} \cup {[found |-> TRUE, result |-> r, event_ticker |-> e] :
                        r \in {"null", "yes", "no"}, e \in {"", "E1"}}

\* main.py 300-301: `if event_ticker:` get_event, else the task returns
event_enrichment(t) ==
    [t EXCEPT !.pc = IF t.event_ticker # "" THEN "get_event" ELSE "done"]

\* main.py 259-268: the task up to its first await
enrich_market(data, now) ==
    LET t == [NoTask EXCEPT !.at = now, !.market_ticker = data.market_ticker,
                            !.event_ticker = data.event_ticker,
                            !.event_type = data.event_type]
    IN  IF data.event_type \in {"determined", "settled"}
        THEN [t EXCEPT !.pc = "get_market", !.requests = 1]
        ELSE event_enrichment(t)

\* Mutant: the handler awaits the task it created
handle_enrichment_needed_awaited(data, configured, now) ==
    IF ~configured
    THEN [NoTask EXCEPT !.pc = "returned"]
    ELSE [enrich_market(data, now) EXCEPT !.awaited = TRUE]

\* main.py 251-257: no client, no task; else create_task, which returns at
\* once, and the task is kept in _fire_and_forget
handle_enrichment_needed(data, configured, now) ==
    IF ~configured
    THEN [NoTask EXCEPT !.pc = "returned"]
    ELSE enrich_market(data, now)

\* main.py 88: Discovery's on_enrichment_needed is the handler above
Scheduled(t, calls, configured, now) ==
    IF calls = <<>> \/ t.pc # "none"
    THEN t
    ELSE handle_enrichment_needed(calls[1], configured, now)

\* main.py 268-277: a get_market returned resp
after_market(t, resp) ==
    LET t1 == [t EXCEPT !.responses = Append(@, resp)]
    IN  IF ~resp.found
        THEN event_enrichment(t1)
        ELSE IF resp.result = "null" /\ t.pc = "get_market"
        THEN [t1 EXCEPT !.pc = "sleep"]
        ELSE [t1 EXCEPT !.pc = "add_settlement"]

\* Mutant: the settlement is built from the first response
settlement_result_first(t) == t.responses[1].result

\* main.py 270-283: `result` is read from the response that is current
\* when the SettlementData is built
settlement_result(t) == t.responses[Len(t.responses)].result

\* the frame loop is suspended while a handler it awaits has not returned
Outstanding(t) == t.pc \notin {"none", "returned", "done", "failed"}
LoopBlocked == task.awaited /\ Outstanding(task)

Init ==
    /\ conn = "starting"
    /\ subscriptions = <<>>
    /\ active_subscriptions = {}
    /\ pending_subscriptions = {}
    /\ overflow_tickers = <<>>
    /\ out = NoOut
    /\ last = NoFrame
    /\ chain = [t \in Tickers |-> NoChain]
    /\ stale_markets = 0
    /\ prev = [subs |-> <<>>, active |-> {}, pending |-> {}, overflow |-> <<>>,
               chain |-> [t \in Tickers |-> NoChain]]
    /\ frames = 0
    /\ requested = {}
    /\ buffers = [b \in BufferNames |-> <<>>]
    /\ lock = "free"
    /\ inflight = [b \in BufferNames |-> <<>>]
    /\ io = {}
    /\ tables = [b \in TableNames |->
                     IF b \in BufferNames \cup {"events", "series"} THEN <<>> ELSE {1}]
    /\ failed = [b \in BufferNames |-> <<>>]
    /\ wlast = NoStep
    /\ adds = 0
    /\ run = NoRun
    /\ api = NoApi
    /\ commands = NoCommands
    /\ phase = "running"
    /\ task = NoTask
    /\ backoff = 1

\* The state the handlers run on
Components ==
    [subs |-> subscriptions, active |-> active_subscriptions,
     pending |-> pending_subscriptions, overflow |-> overflow_tickers,
     out |-> NoOut, is_connected |-> conn = "connected",
     stale_markets |-> stale_markets]

\* the tickers named by the orderbook subscribe commands among cmds
Named(cmds) ==
    {t \in Tickers :
        \E i \in 1..Len(cmds) :
            /\ cmds[i].cmd = "subscribe"
            /\ cmds[i].channel = "orderbook_delta"
            /\ \E j \in 1..Len(cmds[i].tickers) : cmds[i].tickers[j] = t}

\* connection.py 137-142: one frame is received and handed to on_message
\* _connect_and_run's `await self._on_message(msg)` for one frame
Handle(msg, budget) ==
    /\ conn = "connected"
    /\ ~LoopBlocked
    /\ frames < budget
    /\ frames' = frames + 1
    /\ last' = msg
    /\ prev' = Snapshot(chain)
    /\ IF RaisesInHandler(msg)
       THEN /\ conn' = ConnAfterException
            /\ out' = NoOut
            /\ UNCHANGED <<subscriptions, active_subscriptions, pending_subscriptions,
                           overflow_tickers, chain, stale_markets, requested, task>>
       ELSE LET r == handle_message(Components, msg)
            IN  /\ conn' = conn
                /\ subscriptions' = r.subs
                /\ active_subscriptions' = r.active
                /\ pending_subscriptions' = r.pending
                /\ overflow_tickers' = r.overflow
                /\ out' = r.out
                /\ chain' = NextChain(chain, msg, r.out)
                /\ stale_markets' = r.stale_markets
                /\ requested' = requested \cup Named(r.out.cmds)
                /\ IF r.out.enrich = <<>>
                   THEN UNCHANGED task
                   ELSE \E configured \in BOOLEAN :
                            task' = Scheduled(task, r.out.enrich, configured, frames)
    /\ UNCHANGED <<phase, backoff, api, commands>>

\* a frame none of whose Writer calls is followed here
Dispatch(msg, budget) ==
    /\ Handle(msg, budget)
    /\ UNCHANGED writerVars

\* the sets of tickers the markets table may hold with status = 'active'
\* when the collector starts: none in a fresh store; at most
\* max_subscriptions in a store that an earlier run filled
FreshStore == {{}}
FilledStores == {T \in SUBSET Tickers : Cardinality(T) <= MaxSubscriptions}

\* connection.py 125-133: the handshake succeeded; on_reconnect runs before
\* the first recv of the new connection
Handshake == [NoFrame EXCEPT !.type = "handshake"]

\* main.py 110-125 and 323-335, connection.py 112-133: hydration seeds
\* Discovery's active set with the stored tickers (main.py 331: if tickers),
\* then the connection opens and on_reconnect subscribes the channels.
Start(stores) ==
    /\ conn = "starting"
    /\ conn' = "connected"
    /\ \E stored \in stores :
           LET hydrated == IF stored # {}
                           THEN load_existing_subscriptions(Components, stored)
                           ELSE Components
           IN  \E tickers \in get_resubscribe_list(hydrated) :
                   LET r == handle_reconnect(hydrated, tickers)
                   IN  /\ active_subscriptions' = r.active
                       /\ out' = r.out
                       /\ requested' = requested \cup Named(r.out.cmds)
    /\ last' = Handshake
    /\ UNCHANGED <<subscriptions, pending_subscriptions, overflow_tickers,
                   prev, chain, stale_markets, frames, phase, task, backoff, api,
                   commands>>
    /\ UNCHANGED writerVars


\* connection.py 93-110: the except branch of start(): it logs the backoff,
\* sleeps it (plus jitter) and doubles it up to max_backoff
Backoff(type) ==
    /\ last' = [NoFrame EXCEPT !.type = type, !.backoff_seconds = backoff]
    /\ backoff' = IF backoff * 2 < max_backoff THEN backoff * 2 ELSE max_backoff

\* connection.py 88-110: recv (or a send) raises ConnectionClosed / OSError;
\* start() catches it and sleeps the backoff.  No component state is cleared.
Disconnect ==
    /\ conn = "connected"
    /\ conn' = "reconnecting"
    /\ Backoff("disconnected")
    /\ out' = NoOut
    /\ UNCHANGED <<subscriptions, active_subscriptions, pending_subscriptions,
                   overflow_tickers, prev, chain, stale_markets, frames, requested, phase, task, api,
                   commands>>
    /\ UNCHANGED writerVars

\* connection.py 88-110 and 120-126: websockets.connect raises OSError or
\* InvalidStatusCode; the handshake did not complete, on_reconnect is not run
ConnectFails ==
    /\ conn = "reconnecting"
    /\ Backoff("connect_failed")
    /\ out' = NoOut
    /\ UNCHANGED <<conn, subscriptions, active_subscriptions, pending_subscriptions,
                   overflow_tickers, prev, chain, stale_markets, frames, requested, phase, task, api,
                   commands>>
    /\ UNCHANGED writerVars

\* Mutant: a watchdog timeout drops the connection whatever the ping does
on_watchdog_timeout_drop(ping_ok) == [pings |-> 1, conn |-> "reconnecting"]

\* connection.py 143-147: except asyncio.TimeoutError: one ws.ping().  A ping
\* that goes out leaves the loop at its next recv; a ping that raises
\* ConnectionClosed leaves _connect_and_run for start()'s except branch.
on_watchdog_timeout(ping_ok) ==
    [pings |-> 1, conn |-> IF ping_ok THEN "connected" ELSE "reconnecting"]

\* connection.py 137-147: no frame within watchdog_timeout_seconds
WatchdogTimeout ==
    /\ conn = "connected"
    /\ \E ping_ok \in BOOLEAN :
           LET r == on_watchdog_timeout(ping_ok)
           IN  /\ conn' = r.conn
               /\ out' = [NoOut EXCEPT !.pings = r.pings]
               /\ IF ping_ok
                  THEN /\ last' = [NoFrame EXCEPT !.type = "watchdog_timeout"]
                       /\ UNCHANGED backoff
                  ELSE Backoff("disconnected")
    /\ UNCHANGED <<subscriptions, active_subscriptions, pending_subscriptions,
                   overflow_tickers, prev, chain, stale_markets, frames, requested, phase, task, api,
                   commands>>
    /\ UNCHANGED writerVars

\* connection.py 88-92 and 112-133: after the backoff _connect_and_run opens a
\* new connection and awaits on_reconnect (main.py 194-214)
Reconnect ==
    /\ conn = "reconnecting"
    /\ conn' = "connected"
    /\ \E tickers \in get_resubscribe_list(Components) :
           LET r == handle_reconnect(Components, tickers)
           IN  /\ out' = r.out
               /\ requested' = requested \cup Named(r.out.cmds)
    /\ last' = Handshake
    /\ UNCHANGED <<subscriptions, active_subscriptions, pending_subscriptions,
                   overflow_tickers, prev, chain, stale_markets, frames, phase, task, backoff, api,
                   commands>>
    /\ UNCHANGED writerVars

RecvSnapshot == \E msg \in SnapshotFrames(ProcTickers) : Dispatch(msg, MaxFrames)

RecvDelta == \E msg \in DeltaFrames(ProcTickers) : Dispatch(msg, MaxFrames)

RecvLifecycle == \E msg \in LifecycleFrames(Tickers) : Dispatch(msg, MaxEvents)

RecvSubscribed(T, budget) == \E msg \in SubscribedFrames(T) : Dispatch(msg, budget)

RecvUnsubscribed(T, budget) == \E msg \in UnsubscribedFrames(T) : Dispatch(msg, budget)

\* The exchange acknowledges the subscribe command it received for ticker t.
\* A pending ticker has one outstanding on an open connection: _try_subscribe
\* sent it (discovery.py 127-131) or the handshake re-sent it (main.py 205-209).
AckSubscribe(t) ==
    /\ t \in requested
    /\ t \in pending_subscriptions
    /\ \E sid \in Sids :
           Dispatch([NoFrame EXCEPT !.type = "subscribed", !.tickers = <<t>>, !.sid = sid],
                    MaxEvents + Cardinality(Tickers))

RecvAck == \E t \in Tickers : AckSubscribe(t)

\* the exchange acknowledges the unsubscribe command for one ticker
AckUnsubscribe ==
    \E msg \in {f \in UnsubscribedFrames(Tickers) : Len(f.tickers) = 1} :
        Dispatch(msg, MaxEvents)

\* a lifecycle event of each kind Discovery tells apart: one that asks for
\* a subscription, a terminal one
RecvCreatedOrSettled ==
    \E msg \in {f \in LifecycleFrames(Tickers) : f.event_type \in {"created", "settled"}} :
        Dispatch(msg, MaxEvents)

RecvOther == \E msg \in OtherFrames : Dispatch(msg, MaxFrames)

RecvMalformed == \E msg \in MalformedFrames : Dispatch(msg, MaxFrames)

TradeFrames ==
    {[NoFrame EXCEPT !.type = "trade", !.trade_id = adds + 1, !.form = f] :
        f \in {"ok", "bad_payload"}}

\* the records the other callers hand to add_*
WriterCalls ==
    {[call |-> "add_snapshot", ticker |-> "M1", seq |-> 0, sid |-> 10,
      yes |-> "empty", no |-> "empty"],
     [call |-> "add_delta", ticker |-> "M1", seq |-> 1, sid |-> 10, day |-> 1],
     GapRecord("M1", 1, 2, 10),
     OverflowRecord("M2"),
     MarketUpdate("M1", "created"),
     [call |-> "add_settlement", ticker |-> "M1", result |-> "yes"]}

\* writer.py 50-90: `async with self._lock`, append, flush on size.  The
\* flush swaps the buffer out (batch = buffer[:]; buffer.clear()) and awaits
\* the DB with the lock still held by the caller.
WriterAdd(call) ==
    LET b == BufferOf(call.call)
        item == [n |-> adds + 1, rec |-> call]
        appended == Append(buffers[b], item)
    IN  /\ lock = "free"
        /\ adds < MaxAdds
        /\ adds' = adds + 1
        /\ IF FlushesOnAdd(b, appended)
           THEN /\ buffers' = [buffers EXCEPT ![b] = <<>>]
                /\ inflight' = [inflight EXCEPT ![b] = appended]
                /\ io' = {b}
                /\ lock' = CallerOf(b)
                /\ run' = [NoRun EXCEPT !.caller = CallerOf(b), !.taken[b] = appended]
           ELSE /\ buffers' = [buffers EXCEPT ![b] = appended]
                /\ UNCHANGED <<inflight, io, lock, run>>
        /\ wlast' = [NoStep EXCEPT !.op = "add", !.buffer = b]
        /\ UNCHANGED <<tables, failed>>

\* a trade frame is dispatched: _handle_trade -> add_trade
RecvTrade ==
    \E msg \in TradeFrames :
        /\ conn = "connected"
        /\ LET calls == handle_message(Components, msg).out.writer
           IN  IF calls = <<>>
               THEN /\ adds < MaxAdds
                    /\ adds' = adds + 1
                    /\ wlast' = [NoStep EXCEPT !.op = "swallowed"]
                    /\ UNCHANGED <<buffers, lock, inflight, io, tables, failed, run>>
               ELSE WriterAdd(calls[1])
        /\ UNCHANGED dispVars

\* add_snapshot, add_delta, add_gap, add_overflow, add_market_update and
\* add_settlement as the callbacks of the other components call them
Add ==
    \E call \in WriterCalls :
        /\ conn = "connected"
        /\ WriterAdd(call)
        /\ UNCHANGED dispVars

\* writer.py 161-187: the flush loop's tick; flush_all takes the lock and
\* gathers a _flush_* for every non-empty buffer; each swaps its buffer out
\* before its first await.
FlushAll ==
    LET tasks == flush_tasks(buffers)
    IN  /\ phase = "running"
        /\ lock = "free"
        /\ tasks # {}
        /\ lock' = "flush_loop"
        /\ inflight' = [b \in BufferNames |-> IF b \in tasks THEN buffers[b] ELSE inflight[b]]
        /\ buffers' = [b \in BufferNames |-> IF b \in tasks THEN <<>> ELSE buffers[b]]
        /\ io' = tasks
        /\ wlast' = [NoStep EXCEPT !.op = "flush_all"]
        /\ run' = [NoRun EXCEPT !.caller = "flush_loop",
                                !.taken = [b \in BufferNames |->
                                              IF b \in tasks THEN buffers[b] ELSE <<>>]]
        /\ UNCHANGED <<tables, failed, adds>>
        /\ UNCHANGED dispVars

\* the lock is released when the flush (add_*) or the gather (flush_all) returns
Release(left) == IF left = {} THEN "free" ELSE lock

\* the store after a _flush_* of buffer b whose ensure statements for the
\* days in done completed and whose statement wrote rows
Stored(b, done, rows) ==
    [t \in TableNames |->
        IF t = b THEN Write(b, tables[b], rows)
        ELSE IF b \in Partitioned /\ t = PartitionsOf(b) THEN ensure_all(tables[t], done)
        ELSE tables[t]]

\* what an upsert or an ensure of buffer b may change, before the statements
Before(b) ==
    IF b \in RowByRow THEN tables[b]
    ELSE IF b \in Partitioned THEN tables[PartitionsOf(b)]
    ELSE <<>>

\* the DB statements of _flush_* for buffer b succeed: for deltas and
\* trades the partition of every date seen is ensured, then the batch is
\* inserted
FlushSucceeds(b) ==
    LET dts == IF b \in Partitioned THEN dates_seen(inflight[b]) ELSE {}
    IN  /\ b \in io
        /\ b \in Partitioned =>      \* a row whose day has no partition is refused
               \A i \in 1..Len(inflight[b]) :
                   inflight[b][i].rec.day \in ensure_all(tables[PartitionsOf(b)], dts)
        /\ tables' = Stored(b, dts, inflight[b])
        /\ inflight' = [inflight EXCEPT ![b] = <<>>]
        /\ io' = io \ {b}
        /\ lock' = Release(io \ {b})
        /\ failed' = [failed EXCEPT ![b] = <<>>]
        /\ wlast' = [op |-> "flushed", buffer |-> b, batch |-> inflight[b],
                     added |-> buffers[b], retry |-> failed[b] # <<>>, before |-> Before(b),
                     ensured |-> dts, inserting |-> TRUE]
        /\ run' = [run EXCEPT !.written[b] = @ \o inflight[b]]
        /\ UNCHANGED <<buffers, adds>>
        /\ UNCHANGED dispVars

\* a statement of _flush_* for buffer b raises: an ensure, after those for
\* the days in done completed, or the insert, after k rows were written
\* (k = 0 for an executemany, which is atomic).  `except Exception` puts the
\* batch back.
FlushFails(b, k) ==
    LET dts == IF b \in Partitioned THEN dates_seen(inflight[b]) ELSE {}
    IN  /\ b \in io
        /\ k < Len(inflight[b])
        /\ k > 0 => b \in RowByRow
        /\ \E done \in SUBSET dts :
               /\ tables' = Stored(b, done, SubSeq(inflight[b], 1, k))
               /\ wlast' = [op |-> "flush_failed", buffer |-> b, batch |-> inflight[b],
                            added |-> buffers[b], retry |-> failed[b] # <<>>,
                            before |-> Before(b), ensured |-> done,
                            inserting |-> done = dts]
        /\ buffers' = [buffers EXCEPT ![b] = PutBack(inflight[b], @)]
        /\ inflight' = [inflight EXCEPT ![b] = <<>>]
        /\ io' = io \ {b}
        /\ lock' = Release(io \ {b})
        /\ failed' = [failed EXCEPT ![b] = inflight[b]]
        /\ run' = [run EXCEPT !.written[b] = @ \o SubSeq(inflight[b], 1, k),
                              !.ok = FALSE]
        /\ UNCHANGED adds
        /\ UNCHANGED dispVars

\* add_delta / add_trade with a row whose ts falls on either day
AddDated ==
    \E d \in Days :
        \E call \in {[call |-> "add_delta", ticker |-> "M1", seq |-> 1, sid |-> 10, day |-> d],
                     TradeExecution(adds + 1, d)} :
            /\ conn = "connected"
            /\ WriterAdd(call)
            /\ UNCHANGED dispVars

\* main.py 337-347, db.py 49-57: the hourly ensure_partitions creates the
\* deltas partitions of the days ahead; a failure is logged
EnsurePartitions ==
    /\ phase = "running"
    /\ conn = "connected"
    /\ \E ok \in BOOLEAN :
           /\ tables' = IF ok
                        THEN [tables EXCEPT !["deltas_partitions"] = ensure_all(@, Days)]
                        ELSE tables
           /\ wlast' = [NoStep EXCEPT !.op = IF ok THEN "ensure_partitions"
                                                  ELSE "partition_check_failed",
                                      !.buffer = "delta_buffer",
                                      !.before = tables["deltas_partitions"]]
    /\ UNCHANGED <<buffers, lock, inflight, io, failed, adds, run>>
    /\ UNCHANGED dispVars

DbSucceeds == \E b \in BufferNames : FlushSucceeds(b)

\* writer.py 71-75: add_settlement, of a settlement with a result or none yet
AddSettlementData ==
    \E r \in {Null, "yes", "no"} :
      LET s == [call |-> "add_settlement", ticker |-> "M1", result |-> r] IN
        /\ conn = "connected"
        /\ WriterAdd(s)
        /\ UNCHANGED dispVars

\* writer.py 92-126: add_event_update runs its statement on a pool
\* connection, outside the lock and the buffers; a failure is logged
AddEventUpdate ==
    \E st \in {Null, "S1"}, ti \in {Null, "t1"}, ok \in BOOLEAN :
      LET data == [event_ticker |-> "E1", series_ticker |-> st, title |-> ti] IN
        /\ conn = "connected"
        /\ adds < MaxAdds
        /\ adds' = adds + 1
        /\ tables' = IF ok THEN [tables EXCEPT !["events"] = upsert_event(@, data)]
                      ELSE tables
        /\ wlast' = [NoStep EXCEPT !.op = IF ok THEN "add_event_update" ELSE "upsert_failed",
                                   !.buffer = "events", !.batch = <<data>>,
                                   !.before = tables["events"]]
        /\ UNCHANGED <<buffers, lock, inflight, io, failed, run>>
        /\ UNCHANGED dispVars

\* writer.py 128-159: add_series_update, likewise
AddSeriesUpdate ==
    \E ti \in {Null, "t1", "t2"}, ok \in BOOLEAN :
      LET data == [ticker |-> "S1", title |-> ti] IN
        /\ conn = "connected"
        /\ adds < MaxAdds
        /\ adds' = adds + 1
        /\ tables' = IF ok THEN [tables EXCEPT !["series"] = upsert_series(@, data)]
                      ELSE tables
        /\ wlast' = [NoStep EXCEPT !.op = IF ok THEN "add_series_update" ELSE "upsert_failed",
                                   !.buffer = "series", !.batch = <<data>>,
                                   !.before = tables["series"]]
        /\ UNCHANGED <<buffers, lock, inflight, io, failed, run>>
        /\ UNCHANGED dispVars

DbFails == \E b \in BufferNames, k \in 0..MaxAdds : FlushFails(b, k)

Stopped == [NoFrame EXCEPT !.type = "stopped"]

\* main.py 133-143: the signal handler's stop() closes the connection and
\* cancels ws_connection and flush_loop.  A task cancelled inside a _flush_*
\* gets CancelledError at its DB await, which `except Exception` does not
\* catch: the batch it swapped out is not put back, the lock is released,
\* and the statement it was awaiting may or may not have been applied.
Stop ==
    /\ phase = "running"
    /\ conn \in {"connected", "reconnecting", "crashed"}
    /\ phase' = "stopped"
    /\ conn' = "stopped"
    /\ last' = Stopped
    /\ out' = NoOut
    /\ \E applied \in SUBSET io :
           tables' = [t \in TableNames |->
                         IF t \in applied THEN Write(t, tables[t], inflight[t])
                         ELSE IF \E b \in applied \cap Partitioned : t = PartitionsOf(b)
                         THEN LET b == CHOOSE c \in applied \cap Partitioned :
                                           t = PartitionsOf(c)
                              IN  ensure_all(tables[t], dates_seen(inflight[b]))
                         ELSE tables[t]]
    /\ inflight' = [b \in BufferNames |-> <<>>]
    /\ io' = {}
    /\ lock' = "free"
    /\ wlast' = [NoStep EXCEPT !.op = "cancelled"]
    /\ UNCHANGED <<subscriptions, active_subscriptions, pending_subscriptions,
                   overflow_tickers, prev, chain, stale_markets, frames, requested, task, backoff, api,
                   commands>>
    /\ UNCHANGED <<buffers, failed, adds, run>>

\* main.py 145-148: _cleanup, run when the gathered tasks have returned,
\* first closes the enrichment (side-channel) client
CloseEnrichment ==
    /\ phase = "stopped"
    /\ phase' = "client_closed"
    /\ UNCHANGED <<conn, subscriptions, active_subscriptions, pending_subscriptions,
                   overflow_tickers, out, last, prev, chain, stale_markets, frames, requested, task,
                   backoff, api, commands>>
    /\ UNCHANGED writerVars

\* main.py 149-150, writer.py 453-457: _cleanup then awaits writer.stop(),
\* whose one flush_all gathers a _flush_* for every non-empty buffer
FinalFlush ==
    LET tasks == flush_tasks(buffers)
    IN  /\ phase = "client_closed"
        /\ phase' = "flushing"
        /\ lock' = IF tasks = {} THEN "free" ELSE "stop"
        /\ inflight' = [b \in BufferNames |-> buffers[b]]
        /\ buffers' = [b \in BufferNames |-> <<>>]
        /\ io' = tasks
        /\ wlast' = [NoStep EXCEPT !.op = "flush_all"]
        /\ run' = [NoRun EXCEPT !.caller = "stop", !.taken = buffers]
        /\ UNCHANGED <<tables, failed, adds>>
        /\ UNCHANGED <<conn, subscriptions, active_subscriptions, pending_subscriptions,
                       overflow_tickers, out, last, prev, chain, stale_markets, frames, requested, task,
                       backoff, api, commands>>

\* main.py 151: close_pool() once writer.stop() has returned
ClosePool ==
    /\ phase = "flushing"
    /\ io = {}
    /\ phase' = "closed"
    /\ UNCHANGED <<conn, subscriptions, active_subscriptions, pending_subscriptions,
                   overflow_tickers, out, last, prev, chain, stale_markets, frames, requested, task,
                       backoff, api, commands>>
    /\ UNCHANGED writerVars

frameVars == <<conn, subscriptions, active_subscriptions, pending_subscriptions,
               overflow_tickers, out, last, prev, chain, stale_markets, frames, requested, backoff, api,
               commands>>

\* the `data` of a lifecycle event, as on_enrichment_needed would pass it
EnrichmentData ==
    {[market_ticker |-> "M1", event_ticker |-> e, event_type |-> ty] :
        e \in {"", "E1"}, ty \in {"determined", "settled", "created"}}

\* the frames that arrive while an enrichment task runs: the lifecycle
\* events of its market
RecvNext == \E msg \in LifecycleFrames({"M1"}) : Dispatch(msg, MaxFrames)

\* main.py 251-257: _handle_enrichment_needed is called
EnrichmentNeeded ==
    /\ conn = "connected"
    /\ task.pc = "none"
    /\ \E data \in EnrichmentData, configured \in BOOLEAN :
           task' = handle_enrichment_needed(data, configured, frames)
    /\ UNCHANGED <<frameVars, phase>>
    /\ UNCHANGED writerVars

\* main.py 268, 275: the first or the second get_market returns
GetMarketReturns ==
    /\ task.pc \in {"get_market", "get_market_retry"}
    /\ \E resp \in MarketResponses : task' = after_market(task, resp)
    /\ UNCHANGED <<frameVars, phase>>
    /\ UNCHANGED writerVars

\* main.py 274-275: asyncio.sleep(5) returns and the request is repeated
SleepReturns ==
    /\ task.pc = "sleep"
    /\ task' = [task EXCEPT !.pc = "get_market_retry", !.requests = @ + 1]
    /\ UNCHANGED <<frameVars, phase>>
    /\ UNCHANGED writerVars

\* main.py 279-293: the SettlementData is handed to add_settlement
AddSettlement ==
    /\ task.pc = "add_settlement"
    /\ WriterAdd([call |-> "add_settlement", ticker |-> task.market_ticker,
                  result |-> settlement_result(task)])
    /\ task' = [task EXCEPT !.pc = "flush_settlement",
                            !.upserts = Append(@, settlement_result(task))]
    /\ UNCHANGED <<frameVars, phase>>

\* main.py 293-298: add_settlement returned (its flush is over)
SettlementReturns ==
    /\ task.pc = "flush_settlement"
    /\ "settlement_buffer" \notin io
    /\ LET market_data == task.responses[Len(task.responses)]
       IN  task' = event_enrichment(
                       [task EXCEPT !.event_ticker =
                            IF @ = "" THEN market_data.event_ticker ELSE @])
    /\ UNCHANGED <<frameVars, phase>>
    /\ UNCHANGED writerVars

\* main.py 302-309: get_event returns None or the event, which
\* add_event_update upserts directly; the event may name a series
GetEventReturns ==
    /\ task.pc = "get_event"
    /\ \E found \in BOOLEAN, has_series \in BOOLEAN :
           task' = IF ~found
                   THEN [task EXCEPT !.pc = "done"]
                   ELSE [task EXCEPT !.events = @ + 1,
                                     !.pc = IF has_series THEN "get_series" ELSE "done"]
    /\ UNCHANGED <<frameVars, phase>>
    /\ UNCHANGED writerVars

\* main.py 310-313: get_series returns None or the series, which
\* add_series_update upserts directly
GetSeriesReturns ==
    /\ task.pc = "get_series"
    /\ \E found \in BOOLEAN :
           task' = [task EXCEPT !.pc = "done", !.series = IF found THEN @ + 1 ELSE @]
    /\ UNCHANGED <<frameVars, phase>>
    /\ UNCHANGED writerVars

\* main.py 315-321: a step inside the try raises; `except Exception` logs
TaskRaises ==
    /\ task.pc \in {"get_market", "get_market_retry", "add_settlement",
                    "get_event", "get_series"}
    /\ task' = [task EXCEPT !.pc = "failed"]
    /\ UNCHANGED <<frameVars, phase>>
    /\ UNCHANGED writerVars

EnrichmentStep ==
    \/ GetMarketReturns
    \/ SleepReturns
    \/ AddSettlement
    \/ SettlementReturns
    \/ GetEventReturns
    \/ GetSeriesReturns
    \/ TaskRaises

\* A flush stores a row of the ticker: a snapshot, which the later queries
\* take as the latest one (no stored delta is after it), or the next delta
StoreRow ==
    /\ \/ \E yes \in LevelLists, no \in LevelLists :
              api' = [NoApi EXCEPT !.snapshot = <<[seq |-> 0, yes_levels |-> yes,
                                                   no_levels |-> no]>>]
       \/ /\ "deltas" \in DOMAIN api
          /\ Len(api.deltas) < MaxDeltas
          /\ \E p \in BookPrices, a \in DeltaAmounts, side \in {"yes", "no"} :
                 api' = [api EXCEPT
                            !.deltas = Append(@, [price_cents |-> p, delta_amount |-> a,
                                                  side |-> side, seq |-> Len(@) + 1]),
                            !.depth = NoDepth,
                            !.result = <<>>]
    /\ UNCHANGED <<conn, subscriptions, active_subscriptions, pending_subscriptions,
                   overflow_tickers, out, last, prev, chain, stale_markets, frames, requested, phase,
                   task, backoff, commands>>
    /\ UNCHANGED writerVars

\* GET of the orderbook at a timestamp after every stored row
Reconstruct ==
    /\ "snapshot" \in DOMAIN api
    /\ \E depth \in {NoDepth, <<1>>} :
           api' = [api EXCEPT !.depth = depth,
                              !.result = <<reconstruct_orderbook(api.snapshot, api.deltas,
                                                                depth)>>]
    /\ UNCHANGED <<conn, subscriptions, active_subscriptions, pending_subscriptions,
                   overflow_tickers, out, last, prev, chain, stale_markets, frames, requested, phase,
                   task, backoff, commands>>
    /\ UNCHANGED writerVars

-----------------------------------------------------------------------------
(* Cursor pagination: the /deltas route (api/routes/deltas.py) and the     *)
(* SDK's PageIterator over it (sdk/src/kalshibook/_pagination.py).  The    *)
(* result set of a request is rows 1..n in (ts, id) order; the cursor of a *)
(* page is the key of its last row; None is <<>>.                          *)

MaxRows == 6            \* rows in the time range of a list_deltas request
MaxLimit == 3           \* DeltasRequest.limit (ge=1, le=1000), scaled down

\* get_deltas: LIMIT limit + 1 after the cursor, has_more, next_cursor
get_deltas(n, limit, cursor) ==
    LET after == IF cursor = <<>> THEN 0 ELSE cursor[1]
        left == IF n > after THEN n - after ELSE 0
        rows == [i \in 1..(IF left > limit THEN limit + 1 ELSE left) |-> after + i]
        has_more == Len(rows) > limit
        data == IF has_more THEN SubSeq(rows, 1, limit) ELSE rows
    IN  [items |-> data, has_more |-> has_more,
         next_cursor |-> IF has_more /\ data # <<>> THEN <<data[Len(data)]>> ELSE <<>>]

\* PageIterator.__init__; `fetched` is the history of the cursors passed to
\* fetch_page, the first page (fetched by list_deltas with None) included
PageIterator(page) ==
    [items |-> page.items, index |-> 0, has_more |-> page.has_more,
     next_cursor |-> page.next_cursor, consumed |-> <<>>,
     fetched |-> <<[cursor |-> <<>>, index |-> 0, len |-> 0, has_more |-> TRUE]>>]

\* PageIterator.__next__, lines 112-115: the item at _index is consumed
take(it) ==
    [it |-> [it EXCEPT !.index = @ + 1, !.consumed = Append(@, it.items[it.index + 1])],
     item |-> <<it.items[it.index + 1]>>]

\* Mutant: the next page is fetched once the last item of the page is reached
next_eager(it, n, limit) ==
    IF it.index + 1 >= Len(it.items)
    THEN IF ~it.has_more
         THEN IF it.index < Len(it.items) THEN take(it) ELSE [it |-> it, item |-> <<>>]
         ELSE LET page == get_deltas(n, limit, it.next_cursor)
                  got == [it EXCEPT !.items = page.items, !.has_more = page.has_more,
                                    !.next_cursor = page.next_cursor, !.index = 0,
                                    !.fetched = Append(@, [cursor |-> it.next_cursor,
                                                           index |-> it.index,
                                                           len |-> Len(it.items),
                                                           has_more |-> it.has_more])]
              IN  IF page.items = <<>> THEN [it |-> got, item |-> <<>>] ELSE take(got)
    ELSE take(it)

\* PageIterator.__next__ with fetch_page = list_deltas' closure over the
\* request; item <<>> is StopIteration
next(it, n, limit) ==
    IF it.index >= Len(it.items)
    THEN IF ~it.has_more
         THEN [it |-> it, item |-> <<>>]
         ELSE LET page == get_deltas(n, limit, it.next_cursor)
                  got == [it EXCEPT !.items = page.items, !.has_more = page.has_more,
                                    !.next_cursor = page.next_cursor, !.index = 0,
                                    !.fetched = Append(@, [cursor |-> it.next_cursor,
                                                           index |-> it.index,
                                                           len |-> Len(it.items),
                                                           has_more |-> it.has_more])]
              IN  IF page.items = <<>> THEN [it |-> got, item |-> <<>>] ELSE take(got)
    ELSE take(it)

\* list(self): __next__ until StopIteration
RECURSIVE drain(_, _, _)
drain(it, n, limit) ==
    LET r == next(it, n, limit)
    IN  IF r.item = <<>> THEN r.it ELSE drain(r.it, n, limit)

\* client.list_deltas: the first page is fetched, the iterator returned
ListDeltas ==
    /\ "it" \notin DOMAIN api
    /\ \E n \in 0..MaxRows, limit \in 1..MaxLimit :
           api' = [n |-> n, limit |-> limit,
                   it |-> PageIterator(get_deltas(n, limit, <<>>)),
                   yielded |-> <<>>, stopped |-> FALSE, df |-> <<>>]
    /\ UNCHANGED <<conn, subscriptions, active_subscriptions, pending_subscriptions,
                   overflow_tickers, out, last, prev, chain, stale_markets, frames, requested, phase,
                   task, backoff, commands>>
    /\ UNCHANGED writerVars

\* next(iterator)
NextItem ==
    /\ "it" \in DOMAIN api
    /\ LET r == next(api.it, api.n, api.limit)
       IN  api' = [api EXCEPT !.it = r.it,
                              !.yielded = @ \o r.item,
                              !.stopped = r.item = <<>>]
    /\ UNCHANGED <<conn, subscriptions, active_subscriptions, pending_subscriptions,
                   overflow_tickers, out, last, prev, chain, stale_markets, frames, requested, phase,
                   task, backoff, commands>>
    /\ UNCHANGED writerVars

\* iterator.to_df(): the rows of the frame are the records of _consumed
ToDf ==
    /\ "it" \in DOMAIN api
    /\ LET it == drain(api.it, api.n, api.limit)
       IN  api' = [api EXCEPT !.it = it, !.stopped = TRUE, !.df = <<it.consumed>>]
    /\ UNCHANGED <<conn, subscriptions, active_subscriptions, pending_subscriptions,
                   overflow_tickers, out, last, prev, chain, stale_markets, frames, requested, phase,
                   task, backoff, commands>>
    /\ UNCHANGED writerVars

-----------------------------------------------------------------------------
(* KalshiWSConnection._send_command (connection.py 149-189).  The handlers *)
(* above record the calls of send_subscribe / send_unsubscribe in out.cmds; *)
(* here are the frames those calls put on the wire and the ids they carry. *)

MaxCommands == 3        \* calls of send_subscribe / send_unsubscribe in a run
MaxConnects == 2        \* connections opened in a run

\* Mutant: a send that fails gives its id back
send_command_rollback(c, cmd_type, market_tickers, ok) ==
    LET id == c.cmd_id + 1
    IN  IF c.ws = 0 \/ ~c.open \/ ~ok
        THEN [c EXCEPT !.assigned = Append(@, id)]
        ELSE [c EXCEPT !.cmd_id = id,
                       !.assigned = Append(@, id),
                       !.sent = Append(@, [id |-> id, cmd |-> cmd_type,
                                           market_tickers |-> market_tickers,
                                           ws |-> c.ws]),
                       !.returned = Append(@, id)]

\* _send_command: _cmd_id += 1, the frame is built with it, _send raises on
\* no websocket, a closed one or a failing send (ok = FALSE), and the value
\* returned is _cmd_id read after the send
send_command(c, cmd_type, market_tickers, ok) ==
    LET counted == [c EXCEPT !.cmd_id = @ + 1, !.assigned = Append(@, c.cmd_id + 1)]
        cmd == [id |-> counted.cmd_id, cmd |-> cmd_type,
                market_tickers |-> market_tickers, ws |-> c.ws]
    IN  IF c.ws = 0 \/ ~c.open \/ ~ok
        THEN counted
        ELSE [counted EXCEPT !.sent = Append(@, cmd),
                             !.returned = Append(@, counted.cmd_id)]

\* send_subscribe / send_unsubscribe, called by a handler or by the
\* reconnect callback on the connection task
SendCommand ==
    /\ commands.cmd_id < MaxCommands
    /\ \E cmd_type \in {"subscribe", "unsubscribe"}, market_tickers \in {<<>>, <<"M1">>},
          ok \in BOOLEAN :
           commands' = send_command(commands, cmd_type, market_tickers, ok)
    /\ UNCHANGED <<conn, subscriptions, active_subscriptions, pending_subscriptions,
                   overflow_tickers, out, last, prev, chain, stale_markets, frames, requested, phase,
                   task, backoff, api>>
    /\ UNCHANGED writerVars

\* connection.py 119-127: _connect_and_run has a new websocket
ConnectWs ==
    /\ ~commands.open
    /\ commands.ws < MaxConnects
    /\ commands' = [commands EXCEPT !.ws = @ + 1, !.open = TRUE]
    /\ UNCHANGED <<conn, subscriptions, active_subscriptions, pending_subscriptions,
                   overflow_tickers, out, last, prev, chain, stale_markets, frames, requested, phase,
                   task, backoff, api>>
    /\ UNCHANGED writerVars

\* the websocket is closed by the peer or the network; _ws keeps naming it
CloseWs ==
    /\ commands.open
    /\ commands' = [commands EXCEPT !.open = FALSE]
    /\ UNCHANGED <<conn, subscriptions, active_subscriptions, pending_subscriptions,
                   overflow_tickers, out, last, prev, chain, stale_markets, frames, requested, phase,
                   task, backoff, api>>
    /\ UNCHANGED writerVars

\* writer.py 415-428: the status column of the markets row of an update is
\* m.get("event_type", "active"), and the key is always there
market_status(row) == row.rec.event_type

\* main.py 323-335: SELECT ticker FROM markets WHERE status = 'active'
load_existing_markets(table) ==
    {table[i].rec.ticker : i \in {j \in DOMAIN table : market_status(table[j]) = "active"}}

\* a lifecycle frame of M1 is handled: Discovery passes the market update to
\* the Writer (add_market_update) and routes the event
RecvLifecycleStored ==
    \E msg \in LifecycleFrames({"M1"}) :
        /\ Handle(msg, MaxFrames)
        /\ WriterAdd(handle_message(Components, msg).out.writer[1])

Restarted == [NoFrame EXCEPT !.type = "restarted"]

\* The process ends, with or without a shutdown, and is started again: the
\* memory of the old process is gone, the store is as it was, and
\* CollectorService.start hydrates Discovery from the markets table before
\* the connection's first handshake (main.py 90-125)
Restart ==
    /\ conn # "starting"
    /\ LET fresh == [subs |-> <<>>, active |-> {}, pending |-> {}, overflow |-> <<>>,
                     out |-> NoOut, is_connected |-> TRUE, stale_markets |-> 0]
           stored == load_existing_markets(tables["market_updates"])
           hydrated == IF stored # {} THEN load_existing_subscriptions(fresh, stored)
                       ELSE fresh
       IN  \E tickers \in get_resubscribe_list(hydrated) :
               LET r == handle_reconnect(hydrated, tickers)
               IN  /\ active_subscriptions' = r.active
                   /\ out' = r.out
                   /\ requested' = Named(r.out.cmds)
    /\ conn' = "connected"
    /\ subscriptions' = <<>>
    /\ pending_subscriptions' = {}
    /\ overflow_tickers' = <<>>
    /\ last' = Restarted
    /\ prev' = Snapshot(chain)
    /\ chain' = [t \in Tickers |-> NoChain]
    /\ stale_markets' = 0
    /\ phase' = "running"
    /\ task' = NoTask
    /\ backoff' = 1
    /\ commands' = NoCommands
    /\ buffers' = [b \in BufferNames |-> <<>>]
    /\ lock' = "free"
    /\ inflight' = [b \in BufferNames |-> <<>>]
    /\ io' = {}
    /\ failed' = [b \in BufferNames |-> <<>>]
    /\ wlast' = [NoStep EXCEPT !.op = "restart"]
    /\ run' = NoRun
    /\ UNCHANGED <<frames, api, tables, adds>>

\* The collector under every frame type
Next ==
    \/ Start(FilledStores)
    \/ RecvSnapshot
    \/ RecvDelta
    \/ RecvLifecycle
    \/ RecvSubscribed(Tickers, MaxEvents)
    \/ RecvUnsubscribed(Tickers, MaxEvents)
    \/ RecvOther
    \/ RecvMalformed
    \/ Disconnect
    \/ ConnectFails
    \/ WatchdogTimeout
    \/ Reconnect
    \/ RecvTrade
    \/ Add
    \/ FlushAll
    \/ DbSucceeds
    \/ DbFails
    \/ Stop
    \/ CloseEnrichment
    \/ FinalFlush
    \/ ClosePool
    \/ EnrichmentStep
    \/ AddSettlementData
    \/ AddEventUpdate
    \/ AddSeriesUpdate
    \/ AddDated
    \/ EnsurePartitions
    \/ StoreRow
    \/ Reconstruct
    \/ ListDeltas
    \/ NextItem
    \/ ToDf
    \/ SendCommand
    \/ ConnectWs
    \/ CloseWs
    \/ RecvLifecycleStored
    \/ Restart

Spec == Init /\ [][Next]_vars

\* The collector when the exchange sends orderbook frames, acknowledgements
\* and malformed frames (the Processor's inputs)
NextOrderbook ==
    \/ Start(FreshStore)
    \/ RecvSnapshot
    \/ RecvDelta
    \/ RecvSubscribed(ProcTickers, MaxFrames)
    \/ RecvUnsubscribed(ProcTickers, MaxFrames)
    \/ RecvOther
    \/ RecvMalformed

SpecOrderbook == Init /\ [][NextOrderbook]_vars

\* The collector when the exchange sends lifecycle frames and
\* acknowledgements (Discovery's inputs); it acknowledges the subscription
\* of tickers it was asked to subscribe
NextDiscovery ==
    \/ Start(FilledStores)
    \/ RecvLifecycle
    \/ RecvSubscribed(requested, MaxEvents)
    \/ RecvUnsubscribed(Tickers, MaxEvents)

SpecDiscovery == Init /\ [][NextDiscovery]_vars

\* Discovery's inputs on a connection that drops and is reopened
NextReconnect ==
    \/ Start(FilledStores)
    \/ RecvLifecycle
    \/ RecvSubscribed(requested, MaxEvents)
    \/ AckUnsubscribe
    \/ Disconnect
    \/ Reconnect

SpecReconnect == Init /\ [][NextReconnect]_vars

\* The connection's own events: the handshake, frames, a watchdog timeout,
\* a lost connection, a refused one
NextConnection ==
    \/ Start(FilledStores)
    \/ RecvLifecycle
    \/ WatchdogTimeout
    \/ Disconnect
    \/ ConnectFails
    \/ Reconnect

SpecConnection == Init /\ [][NextConnection]_vars

\* Discovery's inputs when the exchange acknowledges the subscribe commands
\* it receives
NextPending ==
    \/ Start(FilledStores)
    \/ RecvCreatedOrSettled
    \/ RecvAck
    \/ AckUnsubscribe
    \/ Disconnect
    \/ Reconnect

SpecPending == Init /\ [][NextPending]_vars

\* The connection comes up again after every drop, and a subscribe command
\* that keeps being sent is eventually acknowledged
FairSpecPending ==
    /\ SpecPending
    /\ WF_vars(Start(FilledStores))
    /\ WF_vars(Reconnect)
    /\ \A t \in Tickers : SF_vars(AckSubscribe(t))

\* The Writer under trade frames, the other components' add_* calls, the
\* flush loop and a DB whose operations succeed or fail
NextWriter ==
    \/ Start(FreshStore)
    \/ RecvTrade
    \/ Add
    \/ FlushAll
    \/ DbSucceeds
    \/ DbFails

SpecWriter == Init /\ [][NextWriter]_vars

\* An enrichment task, from a call of _handle_enrichment_needed, beside
\* the frame loop and the Writer
NextEnrichment ==
    \/ Start(FreshStore)
    \/ RecvNext
    \/ EnrichmentNeeded
    \/ GetMarketReturns
    \/ SleepReturns
    \/ AddSettlement
    \/ SettlementReturns
    \/ GetEventReturns
    \/ GetSeriesReturns
    \/ TaskRaises
    \/ DbSucceeds
    \/ DbFails

SpecEnrichment == Init /\ [][NextEnrichment]_vars

\* The upserts of settlements, events and series under payloads with and
\* without NULL fields
NextUpsert ==
    \/ Start(FreshStore)
    \/ AddSettlementData
    \/ AddEventUpdate
    \/ AddSeriesUpdate
    \/ DbSucceeds
    \/ DbFails

SpecUpsert == Init /\ [][NextUpsert]_vars

\* The Writer with rows of two days, beside the hourly partition job
NextPartition ==
    \/ Start(FreshStore)
    \/ AddDated
    \/ FlushAll
    \/ DbSucceeds
    \/ DbFails
    \/ EnsurePartitions

SpecPartition == Init /\ [][NextPartition]_vars

\* The store of one ticker, read by reconstruct_orderbook
NextReconstruct ==
    \/ StoreRow
    \/ Reconstruct

SpecReconstruct == Init /\ [][NextReconstruct]_vars

\* A list_deltas request of the SDK, iterated and converted by its caller
NextPagination ==
    \/ ListDeltas
    \/ NextItem
    \/ ToDf

SpecPagination == Init /\ [][NextPagination]_vars

\* The connection's command frames over connects, drops and failing sends
NextCommands ==
    \/ SendCommand
    \/ ConnectWs
    \/ CloseWs

SpecCommands == Init /\ [][NextCommands]_vars

\* Lifecycle events of one market, stored by the Writer, across restarts
NextHydration ==
    \/ Start(FreshStore)
    \/ RecvLifecycleStored
    \/ FlushAll
    \/ DbSucceeds
    \/ DbFails
    \/ Restart

SpecHydration == Init /\ [][NextHydration]_vars

\* The Writer from the running collector to the end of its shutdown
NextShutdown ==
    \/ Start(FreshStore)
    \/ RecvTrade
    \/ Add
    \/ FlushAll
    \/ DbSucceeds
    \/ DbFails
    \/ Stop
    \/ CloseEnrichment
    \/ FinalFlush
    \/ ClosePool

SpecShutdown == Init /\ [][NextShutdown]_vars

\* The flush loop keeps running, every DB operation returns, and the insert
\* of a trade batch eventually succeeds
FairSpecWriter ==
    /\ SpecWriter
    /\ WF_vars(FlushAll)
    /\ WF_vars(DbSucceeds \/ DbFails)
    /\ SF_vars(FlushSucceeds("trade_buffer"))

-----------------------------------------------------------------------------
(* What the last frame made the handlers emit.                             *)

CallsOf(o, name) == LET Is(c) == c.call = name IN SelectSeq(o.writer, Is)

CmdsOf(o, name) == LET Is(c) == c.cmd = name IN SelectSeq(o.cmds, Is)

Min(a, b) == IF a < b THEN a ELSE b

\* the last frame was a delta for ticker t that the Processor emitted
DeltaEmittedFor(t) ==
    /\ last.type = "orderbook_delta"
    /\ last.ticker = t
    /\ EmittedDelta(out, t)

\* the last frame was a delta for a ticker that was tracked when it arrived
DeltaForTracked ==
    /\ last.type = "orderbook_delta"
    /\ last.ticker # NoTicker
    /\ last.ticker \in DOMAIN prev.subs

-----------------------------------------------------------------------------
(* C1: between two consecutive snapshots of a ticker every emitted delta   *)
(* has the seq of the previously emitted delta + 1, the first one the      *)
(* snapshot's seq + 1, whatever subscribed / unsubscribed frames arrive in *)
(* between.                                                                *)
C1_ConsecutiveBetweenSnapshots ==
    \A t \in Tickers :
        (DeltaEmittedFor(t) /\ prev.chain[t].snapped)
            => last.seq = prev.chain[t].snap_seq + 1

(* C2: a delta for a tracked ticker with seq > last_seq + 1 emits exactly  *)
(* one gap record (expected = last_seq + 1, received = seq), invokes the   *)
(* resubscribe callback once for the ticker, marks it stale, emits no      *)
(* delta and leaves last_seq unchanged.                                    *)
C2_GapHandled ==
    (DeltaForTracked /\ last.seq > prev.subs[last.ticker].last_seq + 1)
        => /\ CallsOf(out, "add_gap") =
                  <<GapRecord(last.ticker, prev.subs[last.ticker].last_seq + 1,
                              last.seq, last.sid)>>
           /\ out.resubscribe = <<last.ticker>>
           /\ out.cmds = <<SendUnsubscribe(<<last.ticker>>), SendSubscribe(<<last.ticker>>)>>
           /\ CallsOf(out, "add_delta") = <<>>
           /\ last.ticker \in DOMAIN subscriptions
           /\ subscriptions[last.ticker].is_stale
           /\ subscriptions[last.ticker].last_seq = prev.subs[last.ticker].last_seq

\* a gap of exactly one: seq = last_seq + 2, on a market that was not stale
C2_Witness ==
    /\ DeltaForTracked
    /\ last.seq = prev.subs[last.ticker].last_seq + 2
    /\ ~prev.subs[last.ticker].is_stale
    /\ out.resubscribe # <<>>

(* C3: a delta for a tracked ticker with seq < last_seq + 1 is dropped:    *)
(* nothing is emitted, no resubscribe, the Processor state is unchanged.   *)
C3_DuplicateDropped ==
    (DeltaForTracked /\ last.seq < prev.subs[last.ticker].last_seq + 1)
        => /\ out = NoOut
           /\ subscriptions = prev.subs

\* the duplicate repeats the seq that was just accepted
C3_Witness ==
    /\ DeltaForTracked
    /\ last.seq = prev.subs[last.ticker].last_seq
    /\ out = NoOut

(* C4: |active| + |pending| never exceeds max_subscriptions.               *)
C4_CapRespected ==
    Cardinality(active_subscriptions) + Cardinality(pending_subscriptions)
        <= MaxSubscriptions

(* C7: an exception raised while a frame is handled does not escape the    *)
(* dispatcher: the connection task keeps receiving on the same connection. *)
C7_NoErrorEscapes ==
    RaisesInHandler(last) => conn = "connected"

(* C8: after a snapshot (ticker, sid, seq) with a non-empty ticker the     *)
(* ticker's state is sid, last_seq = seq, not stale, and exactly one       *)
(* snapshot record is emitted, whatever the prior state and the levels.    *)
C8_SnapshotResets ==
    (last.type = "orderbook_snapshot" /\ last.ticker # NoTicker)
        => /\ last.ticker \in DOMAIN subscriptions
           /\ subscriptions[last.ticker].sid = last.sid
           /\ subscriptions[last.ticker].last_seq = last.seq
           /\ subscriptions[last.ticker].is_stale = FALSE
           /\ out.writer = <<[call |-> "add_snapshot", ticker |-> last.ticker,
                              seq |-> last.seq, sid |-> last.sid,
                              yes |-> last.yes, no |-> last.no]>>

\* a snapshot with empty level arrays and a new sid arrives for a stale market
C8_Witness ==
    /\ last.type = "orderbook_snapshot"
    /\ last.ticker \in DOMAIN prev.subs
    /\ prev.subs[last.ticker].is_stale
    /\ prev.subs[last.ticker].sid # last.sid
    /\ last.yes = "empty" /\ last.no = "empty"

\* the last frame was an active-inducing event for a ticker not subscribed
\* or pending, at or over the cap
OverCapEvent ==
    /\ last.type = "market_lifecycle_v2"
    /\ last.event_type \in ACTIVE_EVENT_TYPES
    /\ last.ticker # NoTicker
    /\ last.ticker \notin prev.active \cup prev.pending
    /\ Cardinality(prev.active) + Cardinality(prev.pending) >= MaxSubscriptions

(* C9: an active-inducing event for a ticker outside active and pending,   *)
(* while |active| + |pending| >= max_subscriptions, sends no subscribe,    *)
(* appends the ticker to the overflow queue and emits one overflow record. *)
C9_OverflowAtCap ==
    OverCapEvent
        => /\ CmdsOf(out, "subscribe") = <<>>
           /\ overflow_tickers = Append(prev.overflow, last.ticker)
           /\ CallsOf(out, "add_overflow") = <<OverflowRecord(last.ticker)>>

\* the last frame was a terminal event for an active ticker
TerminalOfActive ==
    /\ last.type = "market_lifecycle_v2"
    /\ last.event_type \in TERMINAL_EVENT_TYPES
    /\ last.ticker \in prev.active

FreeSlots ==
    LET n == MaxSubscriptions - Cardinality(prev.active \ {last.ticker})
                              - Cardinality(prev.pending)
    IN  IF n < 0 THEN 0 ELSE n

(* C10: the backfill after a terminal event of an active ticker issues     *)
(* min(len(overflow), free slots) subscribe commands, for the oldest       *)
(* overflow tickers in FIFO order.                                         *)
C10_BackfillIntoFreeSlots ==
    TerminalOfActive
        => LET n == Min(Len(prev.overflow), FreeSlots)
           IN  CmdsOf(out, "subscribe") =
                   [i \in 1..n |-> SendSubscribe(<<prev.overflow[i]>>)]

-----------------------------------------------------------------------------
(* Where the Writer's items are.                                           *)

Count(sq, n) == Cardinality({i \in 1..Len(sq) : sq[i].n = n})

TradeRows(n) == Count(tables["trade_buffer"], n)

\* the n-th add was a trade the dispatcher handed to add_trade
TradeAccepted(n) ==
    Count(buffers["trade_buffer"], n) + Count(inflight["trade_buffer"], n) + TradeRows(n) > 0

(* C5: every trade frame with a new trade_id that reaches the dispatcher   *)
(* is eventually persisted as exactly one row, and no flush, failed and    *)
(* retried or not, makes one trade two rows.                               *)
C5_TradePersistedOnce ==
    \A n \in 1..MaxAdds :
        /\ [](TradeAccepted(n) => <>(TradeRows(n) = 1))
        /\ [](TradeRows(n) <= 1)

\* a batch of trades is written by the retry of a flush that failed
C5_Witness ==
    /\ wlast.op = "flushed"
    /\ wlast.buffer = "trade_buffer"
    /\ wlast.retry
    /\ \E n \in 1..MaxAdds : TradeRows(n) = 1

(* C6: after a failed flush the buffer holds the failed batch followed by  *)
(* the items added since the buffer was swapped out, in order; and the     *)
(* failed batch stays at the head of what the next flush attempts.         *)
C6_FailedBatchPutBack ==
    /\ wlast.op = "flush_failed"
           => buffers[wlast.buffer] = wlast.batch \o wlast.added
    /\ \A b \in BufferNames :
           failed[b] # <<>>
               => IsPrefix(failed[b], IF b \in io THEN inflight[b] ELSE buffers[b])

\* the flush after a failed one is under way with the failed batch and an
\* item that was added after the failure
C6_Witness ==
    \E b \in BufferNames :
        /\ failed[b] # <<>>
        /\ b \in io
        /\ Len(inflight[b]) > Len(failed[b])

-----------------------------------------------------------------------------
\* the tickers of the orderbook subscribes of cmds, in the order sent
RECURSIVE Resubscribed(_)
Resubscribed(cmds) ==
    IF cmds = <<>> THEN <<>> ELSE Head(cmds).tickers \o Resubscribed(Tail(cmds))

(* C11: on every handshake (first connect and reconnect), before a frame   *)
(* of the new connection is dispatched, the client has sent: a subscribe   *)
(* for market_lifecycle_v2, a subscribe for trade, then orderbook_delta    *)
(* subscribes of at most RESUBSCRIBE_BATCH_SIZE tickers each, naming every *)
(* ticker of active \cup pending exactly once and no other ticker.         *)
C11_HandshakeResubscribes ==
    last.type = "handshake"
        => /\ Len(out.cmds) >= 2
           /\ out.cmds[1] = Subscribe("market_lifecycle_v2", <<>>)
           /\ out.cmds[2] = Subscribe("trade", <<>>)
           /\ \A i \in 3..Len(out.cmds) :
                  /\ out.cmds[i].cmd = "subscribe"
                  /\ out.cmds[i].channel = "orderbook_delta"
                  /\ Len(out.cmds[i].tickers) \in 1..RESUBSCRIBE_BATCH_SIZE
           /\ LET named == Resubscribed(SubSeq(out.cmds, 3, Len(out.cmds)))
              IN  /\ Len(named) = Cardinality(active_subscriptions \cup pending_subscriptions)
                  /\ {named[i] : i \in 1..Len(named)} =
                         active_subscriptions \cup pending_subscriptions

\* a reconnect with an active and pending tickers, more than fit one batch
C11_Witness ==
    /\ last.type = "handshake"
    /\ frames > 0
    /\ active_subscriptions # {}
    /\ pending_subscriptions # {}
    /\ Len(out.cmds) > 3

-----------------------------------------------------------------------------
(* C12: every ticker placed in pending eventually leaves pending (moved to *)
(* active by a subscribed acknowledgement, or removed by a terminal event  *)
(* or an unsubscribed acknowledgement), when the connection comes up again *)
(* and the exchange acknowledges the subscribe commands it receives.       *)
C12_PendingLeaves ==
    \A t \in Tickers :
        (t \in pending_subscriptions) ~> (t \notin pending_subscriptions)

\* a ticker that was pending across a reconnect is acknowledged and active
C12_Witness ==
    /\ last.type = "subscribed"
    /\ \E t \in prev.pending :
           /\ t \notin pending_subscriptions
           /\ t \in active_subscriptions
           /\ Cardinality(prev.pending) > 1

-----------------------------------------------------------------------------
(* C13: during shutdown, once the Stream Client is stopped, the size of    *)
(* every Writer buffer never increases, and every buffer is empty when the *)
(* DB pool is closed.                                                      *)
C13_BuffersDrain ==
    /\ [][phase # "running" =>
              \A b \in BufferNames : Len(buffers'[b]) <= Len(buffers[b])]_vars
    /\ [](phase = "closed" => \A b \in BufferNames : buffers[b] = <<>>)

(* C14: the Writer lock is never held while a DB operation is in progress: *)
(* whenever a flush is awaiting the DB the lock is free, so that an add_*  *)
(* issued then can append and return.                                      *)
C14_LockFreeDuringIO == io # {} => lock = "free"

-----------------------------------------------------------------------------
(* C15: for every determined or settled lifecycle event that Discovery     *)
(* handles for a ticker, enrichment is requested for that ticker (so that  *)
(* a task is scheduled and a Settlement upsert follows).                   *)
C15_EnrichmentScheduled ==
    (/\ last.type = "market_lifecycle_v2"
     /\ last.event_type \in {"determined", "settled"}
     /\ last.ticker # NoTicker)
        => \E i \in 1..Len(out.enrich) : out.enrich[i].market_ticker = last.ticker

(* C16: an enrichment task issues at most two market-detail requests and   *)
(* hands at most one Settlement to the Writer; when the first response has *)
(* a null result and the second a result r, the one Settlement carries r   *)
(* and none carries null.                                                  *)
C16_OneRetryOneUpsert ==
    /\ task.requests <= 2
    /\ Len(task.responses) <= task.requests
    /\ Len(task.upserts) <= 1
    /\ (/\ task.responses # <<>>
        /\ task.responses[1].found
        /\ task.responses[1].result = "null")
           => /\ \A i \in 1..Len(task.upserts) :
                     /\ Len(task.responses) = 2
                     /\ task.upserts[i] = task.responses[2].result
              /\ (Len(task.responses) = 2 /\ task.responses[2].found
                      /\ task.responses[2].result # "null")
                     => \A i \in 1..Len(task.upserts) : task.upserts[i] # "null"

\* the retry returned a result and the Settlement with it was handed over
C16_Witness ==
    /\ Len(task.responses) = 2
    /\ task.responses[1].result = "null"
    /\ task.upserts = <<"yes">>
    /\ \E i \in 1..Len(tables["settlement_buffer"]) :
           tables["settlement_buffer"][i].rec.result = "yes"

(* C17: scheduling enrichment does not block the frame loop: while the     *)
(* task's requests or its retry wait are outstanding the dispatcher can    *)
(* dispatch the next frame; and a step of the task that raises changes     *)
(* nothing outside the task.                                               *)
C17_EnrichmentDoesNotBlock ==
    /\ []((Outstanding(task) /\ conn = "connected" /\ frames < MaxFrames)
              => ENABLED RecvNext)
    /\ [][(task.pc # "failed" /\ task'.pc = "failed")
              => UNCHANGED <<frameVars, phase, writerVars>>]_vars

\* a frame was dispatched after the task was created and while it waits
\* for its retry
C17_Witness ==
    /\ task.pc \in {"sleep", "get_market_retry"}
    /\ frames > task.at
    /\ last.type = "market_lifecycle_v2"

(* C18: an add that brings a buffer to max_batch_size flushes it at once,  *)
(* so with a DB that has not failed no buffer (snapshots, deltas, trades,  *)
(* settlements, gaps, overflow, market-updates) ever holds max_batch_size  *)
(* or more items.                                                          *)
C18_SizeFlushEveryBuffer ==
    \A b \in BufferNames :
        failed[b] = <<>> => Len(buffers[b]) < MaxBatchSize

\* the buffers whose batch is inserted in one executemany
AppendOnly == BufferNames \ RowByRow

\* the flush loop's flush_all has returned, every DB operation of it having
\* succeeded, and nothing has touched the Writer since
FlushAllReturned ==
    /\ run.caller = "flush_loop"
    /\ run.ok
    /\ io = {}
    /\ wlast.op = "flushed"

(* C19: a flush_all of the flush loop whose DB operations succeed leaves   *)
(* every buffer empty, and writes each item that was buffered when it      *)
(* started exactly once.                                                   *)
C19_FlushAllEmptiesBuffers ==
    FlushAllReturned
        => \A b \in BufferNames :
               /\ buffers[b] = <<>>
               /\ run.written[b] = run.taken[b]
               /\ b \in AppendOnly
                      => \A i \in 1..Len(run.taken[b]) :
                             Count(tables[b], run.taken[b][i].n) = 1

\* a flush_all that took the batches of two buffers has returned
C19_Witness ==
    /\ FlushAllReturned
    /\ Cardinality({b \in BufferNames : run.taken[b] # <<>>}) >= 2

\* the snapshots handed to the Writer that are not persisted yet
UnwrittenSnapshots ==
    {buffers["snapshot_buffer"][i] : i \in 1..Len(buffers["snapshot_buffer"])}
        \cup {inflight["snapshot_buffer"][i] : i \in 1..Len(inflight["snapshot_buffer"])}

(* C20: for every ticker, a snapshot enqueued in the Writer is persisted   *)
(* before any delta of that ticker enqueued after it: no delta is in the   *)
(* store while an earlier snapshot of its ticker is still to be written.   *)
C20_SnapshotBeforeLaterDeltas ==
    \A i \in 1..Len(tables["delta_buffer"]) :
        \A snap \in UnwrittenSnapshots :
            ~(/\ snap.rec.ticker = tables["delta_buffer"][i].rec.ticker
              /\ snap.n < tables["delta_buffer"][i].n)

-----------------------------------------------------------------------------
\* the last Writer step upserted one payload into table t
Upserted(t) ==
    /\ wlast.buffer = t
    /\ wlast.op \in {"flushed", "add_event_update", "add_series_update"}
    /\ Len(wlast.batch) = 1

\* payload field new repeats what the row knows or is NULL
NoNews(new, known) == new = Null \/ new = known

\* column c of a row was known and is kept
Kept(old, new) == old # Null => new = old

(* C21: upserts on settlements, events and series are idempotent and       *)
(* non-regressing: the payload just applied, applied again, leaves the     *)
(* table as it is; and a payload that differs from what the row knew only  *)
(* by NULL fields leaves every known (non-NULL) column of the row as it    *)
(* was.                                                                    *)
C21_UpsertIdempotentNonRegressing ==
    /\ Upserted("settlement_buffer")
           => /\ Upsert(tables["settlement_buffer"], wlast.batch[1])
                     = tables["settlement_buffer"]
              /\ \A i \in 1..Len(wlast.before) :
                     NoNews(wlast.batch[1].rec.result, wlast.before[i].rec.result)
                         => Kept(wlast.before[i].rec.result,
                                 tables["settlement_buffer"][i].rec.result)
    /\ Upserted("events")
           => /\ upsert_event(tables["events"], wlast.batch[1]) = tables["events"]
              /\ \A i \in 1..Len(wlast.before) :
                     (/\ NoNews(wlast.batch[1].series_ticker, wlast.before[i].series_ticker)
                      /\ NoNews(wlast.batch[1].title, wlast.before[i].title))
                         => /\ Kept(wlast.before[i].series_ticker,
                                    tables["events"][i].series_ticker)
                            /\ Kept(wlast.before[i].title, tables["events"][i].title)
                            /\ Kept(wlast.before[i].metadata, tables["events"][i].metadata)
    /\ Upserted("series")
           => /\ upsert_series(tables["series"], wlast.batch[1]) = tables["series"]
              /\ \A i \in 1..Len(wlast.before) :
                     NoNews(wlast.batch[1].title, wlast.before[i].title)
                         => /\ Kept(wlast.before[i].title, tables["series"][i].title)
                            /\ Kept(wlast.before[i].metadata, tables["series"][i].metadata)

-----------------------------------------------------------------------------
(* The connection loop.                                                    *)
(* C22: the reconnect backoff resets on a clean handshake: when a          *)
(* connection that had completed its handshake is lost, the delay slept    *)
(* before the first reconnect attempt has the initial base of 1 second,    *)
(* however many failed attempts preceded that connection.                  *)
C22_BackoffResetsOnHandshake ==
    last.type = "disconnected" => last.backoff_seconds = 1

(* C23: when the watchdog timeout elapses with no inbound frame and the    *)
(* ping goes out, exactly one ping is sent for that timeout, the           *)
(* connection is kept (no disconnect, no backoff, no reconnect, no         *)
(* subscribe command, no change of the subscription state) and the         *)
(* receive loop is at its recv again.                                      *)
C23_WatchdogPingsOnce ==
    [][(last'.type = "watchdog_timeout" /\ last' # last)
          => /\ out'.pings = 1
             /\ out'.cmds = <<>>
             /\ out'.resubscribe = <<>>
             /\ conn = "connected"
             /\ conn' = "connected"
             /\ UNCHANGED <<subscriptions, active_subscriptions, pending_subscriptions,
                            overflow_tickers, requested, backoff>>]_vars

\* a watchdog timeout on a connection with subscribed tickers and frames
\* received before
C23_Witness ==
    /\ last.type = "watchdog_timeout"
    /\ frames > 0
    /\ active_subscriptions # {}
    /\ overflow_tickers # <<>>

-----------------------------------------------------------------------------
(* Discovery's routing of lifecycle events.                                *)
(* C24: a terminal lifecycle event for a ticker that is in active sends    *)
(* exactly one unsubscribe, for that ticker, and removes it from active;   *)
(* a terminal event for a ticker that is not in active sends no            *)
(* unsubscribe.                                                            *)
C24_TerminalUnsubscribesOnce ==
    (/\ last.type = "market_lifecycle_v2"
     /\ last.event_type \in TERMINAL_EVENT_TYPES
     /\ last.ticker # NoTicker
     /\ ~RaisesInHandler(last))
        => IF last.ticker \in prev.active
           THEN /\ CmdsOf(out, "unsubscribe") = <<SendUnsubscribe(<<last.ticker>>)>>
                /\ last.ticker \notin active_subscriptions
           ELSE CmdsOf(out, "unsubscribe") = <<>>

\* a terminal event for an active ticker while another waits in overflow,
\* so that the backfill runs in the same handler
C24_Witness ==
    /\ TerminalOfActive
    /\ prev.overflow # <<>>
    /\ CmdsOf(out, "unsubscribe") # <<>>
    /\ CmdsOf(out, "subscribe") # <<>>

\* a terminal event for a ticker that is pending, not active
C24_WitnessNotActive ==
    /\ last.type = "market_lifecycle_v2"
    /\ last.event_type \in TERMINAL_EVENT_TYPES
    /\ last.ticker \in prev.pending \ prev.active

\* the last frame was an active-inducing event for a ticker that was
\* already active or pending
KnownTickerEvent ==
    /\ last.type = "market_lifecycle_v2"
    /\ last.event_type \in ACTIVE_EVENT_TYPES
    /\ last.ticker \in prev.active \cup prev.pending
    /\ ~RaisesInHandler(last)

(* C25: an active-inducing event for a ticker that is already in active or *)
(* pending sends no subscribe and leaves active, pending and the overflow  *)
(* queue as they were.                                                     *)
C25_KnownTickerNoOp ==
    KnownTickerEvent
        => /\ CmdsOf(out, "subscribe") = <<>>
           /\ active_subscriptions = prev.active
           /\ pending_subscriptions = prev.pending
           /\ overflow_tickers = prev.overflow

\* the ticker was pending, with the active set below the cap
C25_Witness ==
    /\ KnownTickerEvent
    /\ last.ticker \in prev.pending
    /\ Cardinality(prev.active) < MaxSubscriptions

-----------------------------------------------------------------------------
(* Acknowledgement and snapshot.                                           *)

\* the delta that follows seq in ticker t's stream
NextDelta(t, seq, sid) ==
    [NoFrame EXCEPT !.type = "orderbook_delta", !.ticker = t, !.seq = seq + 1, !.sid = sid]

\* the last frame was the subscribed acknowledgement for t, after t's snapshot
AckAfterSnapshot(t) ==
    /\ last.type = "subscribed"
    /\ ~RaisesInHandler(last)
    /\ \E i \in 1..Len(last.tickers) : last.tickers[i] = t
    /\ prev.chain[t].snapped
    /\ t \in DOMAIN prev.subs
    /\ prev.subs[t].last_seq = prev.chain[t].snap_seq

\* the last frame was t's snapshot, after the subscribed acknowledgement for t
SnapshotAfterAck(t) ==
    /\ last.type = "orderbook_snapshot"
    /\ ~RaisesInHandler(last)
    /\ last.ticker = t
    /\ t \in DOMAIN prev.subs
    /\ prev.subs[t].last_seq = -1

(* C26: whether the subscribed acknowledgement of a ticker is dispatched   *)
(* before or after the ticker's snapshot (seq = s), the pipeline is left   *)
(* in a state where the next delta, seq = s + 1, is accepted and emitted   *)
(* and no gap is recorded.                                                 *)
C26_EitherOrderTolerated ==
    \A t \in ProcTickers :
        (AckAfterSnapshot(t) \/ SnapshotAfterAck(t))
            => LET r == handle_message(Components,
                                       NextDelta(t, chain[t].snap_seq, subscriptions[t].sid))
               IN  /\ EmittedDelta(r.out, t)
                   /\ CallsOf(r.out, "add_gap") = <<>>

-----------------------------------------------------------------------------
(* Shutdown.                                                               *)

\* the side-channel client has been closed
ClientClosed == phase \in {"client_closed", "flushing", "closed"}

\* the final flush of writer.stop() has run to its end
FinalFlushRan == run.caller = "stop" /\ io = {}

(* C27: on shutdown the steps happen in this order: the Stream Client is   *)
(* stopped and the background tasks are cancelled, then the final Writer   *)
(* flush runs, then the side-channel client is closed, then the DB pool is *)
(* closed.                                                                 *)
C27_ShutdownOrder ==
    /\ run.caller = "stop" => conn = "stopped"
    /\ ClientClosed => FinalFlushRan
    /\ phase = "closed" => ClientClosed /\ FinalFlushRan

-----------------------------------------------------------------------------
(* Partitions.                                                             *)

\* the days of the rows of a batch or of a table
RowDays(rows) == {rows[i].rec.day : i \in 1..Len(rows)}

\* the last Writer step was a flush of deltas or trades whose insert started
InsertStarted ==
    /\ wlast.op \in {"flushed", "flush_failed"}
    /\ wlast.buffer \in Partitioned
    /\ wlast.inserting

\* the last Writer step ran ensure statements: a flush of deltas or trades,
\* or the hourly job
EnsureRan ==
    \/ wlast.op \in {"flushed", "flush_failed"} /\ wlast.buffer \in Partitioned
    \/ wlast.op = "ensure_partitions"

(* C28: for every batch of deltas or trades whose insert starts, the       *)
(* partition of each distinct date of the batch was ensured before, so     *)
(* every inserted row has its partition; and an ensure of a partition that *)
(* exists, whether this flush, another flush or the hourly job made it,    *)
(* succeeds and changes nothing: no partition that existed is lost and     *)
(* ensuring the existing ones again leaves the store as it is.             *)
C28_PartitionsEnsuredBeforeInsert ==
    /\ InsertStarted
           => /\ wlast.ensured = RowDays(wlast.batch)
              /\ RowDays(wlast.batch) \subseteq tables[PartitionsOf(wlast.buffer)]
    /\ \A b \in Partitioned :
           /\ RowDays(tables[b]) \subseteq tables[PartitionsOf(b)]
           /\ \A dt \in tables[PartitionsOf(b)] :
                  ensure_partition(tables[PartitionsOf(b)], dt) = tables[PartitionsOf(b)]
    /\ EnsureRan => wlast.before \subseteq tables[PartitionsOf(wlast.buffer)]

\* a batch with rows of two days was inserted, the partition of day 1
\* existed and that of day 2 was created by this flush
C28_Witness ==
    /\ InsertStarted
    /\ wlast.op = "flushed"
    /\ Cardinality(RowDays(wlast.batch)) = 2
    /\ wlast.before = {1}

\* the hourly job made the partition that a later flush ensured again
C28_WitnessExisting ==
    /\ InsertStarted
    /\ wlast.buffer = "delta_buffer"
    /\ 2 \in RowDays(wlast.batch)
    /\ wlast.before = Days

-----------------------------------------------------------------------------
(* The book a reconstruction must return.                                  *)

\* quantity of a price in the stored snapshot's side, 0 when it has no level
SnapshotQuantity(side, p) ==
    LET levels == IF side = "yes" THEN api.snapshot[1].yes_levels
                  ELSE api.snapshot[1].no_levels
    IN  IF \E i \in DOMAIN levels : levels[i][1] = p
        THEN levels[CHOOSE i \in DOMAIN levels : levels[i][1] = p][2]
        ELSE 0

\* snapshot quantity plus the amounts of the first k stored deltas at (side, p)
RECURSIVE NetQuantity(_, _, _)
NetQuantity(side, p, k) ==
    IF k = 0 THEN SnapshotQuantity(side, p)
    ELSE NetQuantity(side, p, k - 1)
             + (IF api.deltas[k].side = side /\ api.deltas[k].price_cents = p
                THEN api.deltas[k].delta_amount ELSE 0)

NetLevels(side) ==
    {[price |-> p, quantity |-> NetQuantity(side, p, Len(api.deltas))] :
        p \in {x \in BookPrices : NetQuantity(side, x, Len(api.deltas)) > 0}}

ReturnedLevels(side) ==
    LET levels == IF side = "yes" THEN api.result[1].yes ELSE api.result[1].no
    IN  {levels[i] : i \in DOMAIN levels}

\* a full-depth reconstruction from a stored snapshot has returned
Reconstructed == api.result # <<>> /\ api.snapshot # <<>> /\ api.depth = NoDepth

\* no level's running quantity is taken below zero by a delta
NeverBelowZero ==
    \A side \in {"yes", "no"}, p \in BookPrices, k \in 0..Len(api.deltas) :
        NetQuantity(side, p, k) >= 0

-----------------------------------------------------------------------------
\* the last frame was a snapshot or a delta
OrderbookFrame == last.type \in {"orderbook_snapshot", "orderbook_delta"}

\* ticker t is named by something the last frame made the handlers emit
GapOrResubscribeFor(t) ==
    \/ \E i \in 1..Len(out.writer) :
           out.writer[i].call = "add_gap" /\ out.writer[i].ticker = t
    \/ \E i \in 1..Len(out.resubscribe) : out.resubscribe[i] = t
    \/ \E i \in 1..Len(out.cmds) :
           \E j \in 1..Len(out.cmds[i].tickers) : out.cmds[i].tickers[j] = t

(* C30: handling a snapshot or a delta of one ticker, a gap included,      *)
(* leaves (sid, last_seq, is_stale) of every other ticker as it was, starts *)
(* or stops tracking no other ticker, and emits no gap record, resubscribe *)
(* or command for another ticker.                                          *)
C30_OtherTickersUntouched ==
    OrderbookFrame
        => \A t \in Tickers \ {last.ticker} :
               /\ t \in DOMAIN subscriptions <=> t \in DOMAIN prev.subs
               /\ t \in DOMAIN prev.subs => subscriptions[t] = prev.subs[t]
               /\ ~GapOrResubscribeFor(t)

\* a gap on one ticker while another ticker is tracked and not stale
C30_Witness ==
    /\ DeltaForTracked
    /\ last.seq > prev.subs[last.ticker].last_seq + 1
    /\ out.resubscribe = <<last.ticker>>
    /\ \E t \in DOMAIN prev.subs \ {last.ticker} :
           ~prev.subs[t].is_stale /\ ~subscriptions[t].is_stale

\* a snapshot of one ticker while another ticker is stale after its gap
C30_WitnessSnapshot ==
    /\ last.type = "orderbook_snapshot"
    /\ last.ticker # NoTicker
    /\ \E t \in DOMAIN prev.subs \ {last.ticker} :
           prev.subs[t].is_stale /\ subscriptions[t].is_stale

-----------------------------------------------------------------------------
\* a PageIterator exists
Iterating == "it" \in DOMAIN api

\* the first k records of the request's result set, in order
FirstRows(k) == [i \in 1..k |-> i]

\* the pages of the result set before page i hold (i - 1) * limit records
PageStart(i) == (i - 1) * api.limit

C31_WitnessStop ==
    /\ Iterating
    /\ api.stopped
    /\ api.df = <<>>
    /\ Len(api.it.fetched) = 2
    /\ Len(api.yielded) = api.n

-----------------------------------------------------------------------------
(* C32: every call of send_subscribe / send_unsubscribe is assigned the id *)
(* of the call before it plus 1, starting at 1 and across connections; the *)
(* command frames sent carry strictly increasing ids, so no two carry the  *)
(* same id; and the id a call returns is the id of the frame it sent.      *)
C32_CommandIdsIncrease ==
    /\ commands.assigned = [i \in 1..commands.cmd_id |-> i]
    /\ \A i \in 1..Len(commands.sent) :
           /\ commands.sent[i].id \in 1..commands.cmd_id
           /\ \A j \in 1..Len(commands.sent) :
                  i < j => commands.sent[i].id < commands.sent[j].id
    /\ Len(commands.returned) = Len(commands.sent)
    /\ \A i \in 1..Len(commands.sent) : commands.returned[i] = commands.sent[i].id

\* a frame sent on the second connection, after a send that failed, carries
\* the next id
C32_Witness ==
    /\ Len(commands.sent) = 2
    /\ commands.sent[1].ws = 1
    /\ commands.sent[2].ws = 2
    /\ commands.sent[1].id = 1
    /\ commands.sent[2].id = 3
    /\ commands.returned = <<1, 3>>

-----------------------------------------------------------------------------
\* the last frame was a delta for a ticker with no subscription state
DeltaForUntracked ==
    /\ last.type = "orderbook_delta"
    /\ last.ticker # NoTicker
    /\ last.ticker \notin DOMAIN prev.subs

(* C33: a delta for a ticker with no subscription state, never tracked or  *)
(* untracked by an unsubscribed acknowledgement, is accepted whatever its  *)
(* seq: the state is created with the frame's sid and last_seq = seq, not  *)
(* stale, exactly the delta is emitted to the Writer, and no gap record,   *)
(* resubscribe or command is produced.                                     *)
C33_UntrackedDeltaAccepted ==
    DeltaForUntracked
        => /\ last.ticker \in DOMAIN subscriptions
           /\ subscriptions[last.ticker] =
                  [sid |-> last.sid, last_seq |-> last.seq, is_stale |-> FALSE]
           /\ Len(out.writer) = 1
           /\ out.writer[1].call = "add_delta"
           /\ out.writer[1].ticker = last.ticker
           /\ out.writer[1].seq = last.seq
           /\ out.writer[1].sid = last.sid
           /\ out.resubscribe = <<>>
           /\ out.cmds = <<>>
           /\ \A t \in Tickers \ {last.ticker} :
                  t \in DOMAIN subscriptions <=> t \in DOMAIN prev.subs

\* the ticker had a snapshot, was untracked by an unsubscribed
\* acknowledgement, and its next delta skips sequence numbers
C33_Witness ==
    /\ DeltaForUntracked
    /\ prev.chain[last.ticker].snapped
    /\ last.seq > prev.chain[last.ticker].snap_seq + 1
    /\ EmittedDelta(out, last.ticker)

\* the first frame of a ticker is a delta with seq > 0
C33_WitnessNeverTracked ==
    /\ DeltaForUntracked
    /\ ~prev.chain[last.ticker].snapped
    /\ last.seq > 0
    /\ EmittedDelta(out, last.ticker)

-----------------------------------------------------------------------------
\* the markets whose stored row comes from an active-inducing event
StoredActive ==
    {tables["market_updates"][i].rec.ticker :
        i \in {j \in DOMAIN tables["market_updates"] :
                  tables["market_updates"][j].rec.event_type \in ACTIVE_EVENT_TYPES}}

(* C34: after a restart Discovery's active set is the set of markets whose *)
(* last lifecycle event flushed before the restart was active-inducing     *)
(* (created, activated, close_date_updated): their stored status is the    *)
(* one the hydration query selects, and markets whose last flushed event   *)
(* was terminal are not seeded.                                            *)
C34_HydrationSeedsActive ==
    /\ \A i \in DOMAIN tables["market_updates"] :
           tables["market_updates"][i].rec.event_type \in ACTIVE_EVENT_TYPES
               => market_status(tables["market_updates"][i]) = "active"
    /\ last.type = "restarted" => active_subscriptions = StoredActive

-----------------------------------------------------------------------------
\* the last frame was a terminal lifecycle event of a ticker
TerminalEvent ==
    /\ last.type = "market_lifecycle_v2"
    /\ last.event_type \in TERMINAL_EVENT_TYPES
    /\ last.ticker # NoTicker

(* C35: once a terminal event of a ticker was handled, the ticker is in    *)
(* none of active, pending and the overflow queue; the backfill that the   *)
(* terminal event of another, active ticker would start sends no subscribe *)
(* for it; and, if it was pending when its terminal event arrived, the     *)
(* `subscribed` acknowledgement of that request does not make it active.   *)
C35_TerminalStaysUnsubscribed ==
    TerminalEvent
        => /\ last.ticker \notin active_subscriptions \cup pending_subscriptions
           /\ \A i \in 1..Len(overflow_tickers) : overflow_tickers[i] # last.ticker
           /\ \A u \in active_subscriptions, e \in TERMINAL_EVENT_TYPES :
                  last.ticker \notin
                      Named(handle_message(Components,
                                [NoFrame EXCEPT !.type = "market_lifecycle_v2",
                                                !.ticker = u,
                                                !.event_type = e]).out.cmds)
           /\ \A sid \in Sids :
                  last.ticker \in prev.pending
                      => last.ticker \notin
                             handle_message(Components,
                                 [NoFrame EXCEPT !.type = "subscribed",
                                                 !.tickers = <<last.ticker>>,
                                                 !.sid = sid]).active

-----------------------------------------------------------------------------
\* this step is stop() cancelling the tasks of the running collector
Cancelling == phase = "running" /\ phase' = "stopped"

\* the batch swapped out of buffer b is written by this step, or is back at
\* the head of its buffer after it
BatchKept(b) ==
    \/ tables'[b] = Write(b, tables[b], inflight[b])
    \/ IsPrefix(inflight[b], buffers'[b])

-----------------------------------------------------------------------------
\* the last frame was a delta of a ticker that was stale when it arrived: a
\* gap was detected for it and no snapshot has reset it since
DeltaWhileStale ==
    /\ last.type = "orderbook_delta"
    /\ last.ticker \in DOMAIN prev.subs
    /\ prev.subs[last.ticker].is_stale

(* C37: between the detection of a gap for a ticker and the next snapshot  *)
(* of that ticker, a further delta of the ticker emits no second gap       *)
(* record and sends no second unsubscribe/subscribe pair for it.           *)
C37_OneRecoveryPerGap ==
    DeltaWhileStale => ~GapOrResubscribeFor(last.ticker)

-----------------------------------------------------------------------------
\* the last frame was a gap of the managed ticker t: its recovery has sent
\* unsubscribe and subscribe, and neither acknowledgement has arrived
Recovering(t) ==
    /\ \E i \in 1..Len(out.resubscribe) : out.resubscribe[i] = t
    /\ t \in active_subscriptions \cup pending_subscriptions

\* the `unsubscribed` acknowledgement of the recovery of t
UnsubscribedAck(t) == [NoFrame EXCEPT !.type = "unsubscribed", !.tickers = <<t>>]

(* C38: a ticker under gap recovery stays in active or pending after the   *)
(* `unsubscribed` acknowledgement of the recovery's unsubscribe, so the    *)
(* list a reconnect resubscribes still names it.                           *)
C38_RecoveringStaysManaged ==
    \A t \in Tickers :
        Recovering(t)
            => LET r == handle_message(Components, UnsubscribedAck(t))
               IN  /\ t \in r.active \cup r.pending
                   /\ \A q \in get_resubscribe_list(r) :
                          \E i \in 1..Len(q) : q[i] = t

-----------------------------------------------------------------------------
\* the last frame ran a Processor operation: handle_snapshot, handle_delta
\* (with _handle_gap), track_market or untrack_market
ProcessorOperation ==
    \/ OrderbookFrame /\ last.ticker # NoTicker
    \/ last.type \in {"subscribed", "unsubscribed"} /\ last.tickers # <<>>

(* C39: after every Processor operation (snapshot, delta, gap, track,      *)
(* untrack) the stale_markets metric equals the number of tracked          *)
(* subscriptions whose is_stale flag is true.                              *)
C39_StaleMetricExact ==
    ProcessorOperation => stale_markets = stale_count(subscriptions)

====
